---------------------------- MODULE Spec2Model ----------------------------
(***************************************************************************)
(* HyperHeadset: the device abstraction and the state-refresh engine.      *)
(*                                                                         *)
(* The model follows src/src/devices/mod.rs (Device State, the merge step, *)
(* wait_for_updates, active_refresh_state, passive_refresh_state), the     *)
(* four codecs connect_compatible_device can construct (Cloud II, Cloud II *)
(* DTS, Cloud III S, Cloud III) and the tray main loop of src/src/main.rs. *)
(*                                                                         *)
(* Conventions                                                             *)
(*   - Option<T>: None is <<>>, Some(v) is <<v>>.                          *)
(*   - A HID report is the sequence of its first eight bytes; the read     *)
(*     buffer is zero-initialised, so every byte behind them is 0.         *)
(*     Rust's response[i] is At(response, i).                              *)
(*   - An outgoing packet is the sequence of its bytes up to the last      *)
(*     byte a codec ever sets; the bytes behind it are 0.                  *)
(*   - A Duration is its number of seconds.                                *)
(***************************************************************************)
EXTENDS Integers, Sequences, FiniteSets, TLC

VARIABLES
    pc,             \* position of the main loop thread (of main, in the CLI)
    attached,       \* environment: the HID devices an enumeration lists, in order
    model,          \* codec variant of the current Box<dyn Device>
    ds,             \* its DeviceState
    run_counter,    \* main.rs: run_counter
    was_connected,  \* main.rs: was_connected
    idx,            \* position of the sweep in the flattened packet list
    responded,      \* active_refresh_state: responded
    log,            \* transport operations of the refresh in progress / last refresh
    result,         \* what the last call made by the main loop returned
    kind,           \* which call that was: "connect", "active", "passive"
    hw,             \* environment: payload byte the headset reports on this connection
    tmode,          \* environment: "answering" or "silent" transport
    faults,         \* environment: reads of this connection that were not the plain reply
    request,        \* what the process was asked to set: CLI arguments, EQ preset
    profile,        \* selected_profile.json: the persisted SelectedProfile
    preset_files,   \* eq_presets/<name>.json: the user presets, name -> bands
    editor,         \* the EqEditor of hyper_headset_cli --eq
    sent,           \* per band, the gain the editor last handed to the device
    previous_profile, \* hyper_headset_cli --eq: the profile read before the editor
    popup           \* the GTK popup thread: visible, window, its command channel

\* what the equalizer front ends add to the state of the device engine
uivars == <<profile, preset_files, editor, sent, previous_profile, popup>>

vars == <<pc, attached, model, ds, run_counter, was_connected, idx, responded,
          log, result, kind, hw, tmode, faults, request, uivars>>

(***************************************************************************)
(* Bounds of the model.                                                    *)
(***************************************************************************)
\* Payload bytes the simulated headset reports: 0..MaxByte and 255.
MaxByte == 1
\* Poll ticks the main loop runs on one connection.
MaxTicks == 2
\* Reads of one connection whose outcome is not the matching reply.
MaxFaults == 1
\* HID devices one enumeration lists.
MaxDevices == 2
\* Bands of one equalizer request or preset (NUM_BANDS is 10).
MaxBands == 2
\* Set options given in one invocation of the CLI.
MaxOptions == 2

PayloadBytes == (0..MaxByte) \cup {255}

(***************************************************************************)
(* Option, bytes.                                                          *)
(***************************************************************************)
None == <<>>
Some(v) == <<v>>
IsSome(o) == o # None

\* No set option, no --eq-band/--eq-profile, no preset
NoRequest == [opts |-> {}, arg |-> 0, eq |-> None, preset |-> None]

\* SelectedProfile::default(): no active preset (and not synced)
NoProfile == [active_preset |-> <<>>, synced |-> FALSE]

\* No editor runs
NoEditor == [mode |-> "none"]

\* spawn_gtk_popup_thread: window = None, visible = false, an empty channel
NoPopup == [visible |-> FALSE, window |-> <<>>, rx |-> <<>>]

\* The state of the equalizer front ends where none of them runs
NoUi ==
    /\ profile = NoProfile
    /\ preset_files = <<>>
    /\ editor = NoEditor
    /\ sent = <<>>
    /\ previous_profile = NoProfile
    /\ popup = NoPopup

At(bytes, i) == bytes[i + 1]

\* (b & 2) of a byte
Bit1(b) == (b \div 2) % 2

BoolByte(v) == IF v THEN 1 ELSE 0

Models == {"CloudII", "CloudIIDTS", "CloudIIIS", "CloudIII"}

(***************************************************************************)
(* Command identifiers of the codecs.                                      *)
(***************************************************************************)
II_GET_CHARGING_CMD_ID == 3
II_GET_BATTERY_CMD_ID == 2
II_GET_AUTO_SHUTDOWN_CMD_ID == 26
II_SET_AUTO_SHUTDOWN_CMD_ID == 24
II_GET_MUTE_CMD_ID == 1
II_MUTE_RESPONSE_ID == 8
II_FIRMWARE_VERSION_RESPONSE_ID == 17
II_CONNECTION_STATUS_RESPONSE_ID == 1
II_SET_SIDE_TONE_ON_CMD_ID == 25

DTS_GET_CHARGING_CMD_ID == 3
DTS_GET_MIC_CONNECTED_CMD_ID == 8
DTS_GET_BATTERY_CMD_ID == 2
DTS_GET_AUTO_SHUTDOWN_CMD_ID == 7
DTS_SET_AUTO_SHUTDOWN_CMD_ID == 34
DTS_GET_MUTE_CMD_ID == 5
DTS_SET_MUTE_CMD_ID == 32
DTS_GET_PAIRING_CMD_ID == 9
DTS_GET_PRODUCT_COLOR_CMD_ID == 14
DTS_GET_SIDE_TONE_ON_CMD_ID == 6
DTS_SET_SIDE_TONE_ON_CMD_ID == 33
DTS_GET_SIDE_TONE_VOLUME_CMD_ID == 11
DTS_SET_SIDE_TONE_VOLUME_CMD_ID == 35
DTS_GET_VOICE_PROMPT_CMD_ID == 9
DTS_GET_WIRELESS_STATUS_CMD_ID == 1

IIIS_MIC_HEADER == 5
IIIS_MIC_ON_CMD == 0
IIIS_MIC_OFF_CMD == 2
IIIS_AUTO_SHUTDOWN_REPORT_ID == 12
IIIS_RESPONSE_ID == 12
IIIS_NOTIFICATION_ID == 13
IIIS_BATTERY_COMMAND_ID == 6
IIIS_DONGLE_CONNECTED_COMMAND_ID == 2
IIIS_COLOR_COMMAND_ID == 77
IIIS_CHARGE_STATE_COMMAND_ID == 72
IIIS_GET_MIC_MUTE_COMMAND_ID == 4
IIIS_GET_SIDE_TONE_COMMAND_ID == 22
IIIS_GET_AUTO_POWER_OFF_COMMAND_ID == 75
IIIS_GET_VOICE_PROMPT_COMMAND_ID == 20
IIIS_CONSUMER_CONTROL_HEADER == 15
IIIS_EQ_REPORT_ID == 12

III_RESET_SIRK_CMD_ID == 30
III_GET_SIRK_CMD_ID == 131
III_GET_SILENT_MODE_CMD_ID == 135
III_SET_SILENT_MODE_CMD_ID == 4
III_GET_CHARGING_CMD_ID == 138
III_CHARGING_RESPONSE_ID == 12
III_GET_BATTERY_CMD_ID == 137
III_BATTERY_RESPONSE_ID == 13
III_GET_AUTO_SHUTDOWN_CMD_ID == 133
III_SET_AUTO_SHUTDOWN_CMD_ID == 2
III_GET_MUTE_CMD_ID == 134
III_MUTE_RESPONSE_ID == 10
III_SET_MUTE_CMD_ID == 3
III_GET_PRODUCT_COLOR_CMD_ID == 143
III_GET_SIDE_TONE_ON_CMD_ID == 132
III_SET_SIDE_TONE_ON_CMD_ID == 1
III_GET_SIDE_TONE_VOLUME_CMD_ID == 136
III_SET_SIDE_TONE_VOLUME_CMD_ID == 5
III_GET_WIRELESS_STATUS_CMD_ID == 130
III_WIRELESS_STATUS_RESPONSE_ID == 11

\* cloud_ii_core_wireless.rs
CORE_GET_CHARGING_CMD_ID == 138
CORE_CHARGING_RESPONSE_ID == 12
CORE_GET_MIC_CONNECTED_CMD_ID == 140
CORE_MIC_CONNECTED_RESPONSE_ID == 7
CORE_GET_BATTERY_CMD_ID == 137
CORE_BATTERY_RESPONSE_ID == 13
CORE_GET_AUTO_SHUTDOWN_CMD_ID == 133
CORE_SET_AUTO_SHUTDOWN_CMD_ID == 2
CORE_GET_MUTE_CMD_ID == 134
CORE_MUTE_RESPONSE_ID == 10
CORE_SET_MUTE_CMD_ID == 3
CORE_GET_PAIRING_CMD_ID == 129
CORE_GET_SIDE_TONE_ON_CMD_ID == 132
CORE_SIDE_TONE_RESPONSE_ID == 9
CORE_SET_SIDE_TONE_ON_CMD_ID == 1
CORE_GET_SIDE_TONE_VOLUME_CMD_ID == 136
CORE_SET_SIDE_TONE_VOLUME_CMD_ID == 5
CORE_GET_WIRELESS_STATUS_CMD_ID == 130
CORE_WIRELESS_STATUS_RESPONSE_ID == 11
CORE_GET_PLAY_BACK_MUTE_CMD_ID == 135
CORE_SET_PLAY_BACK_MUTE_CMD_ID == 4
CORE_GET_NOISE_GATE_CMD_ID == 141
CORE_SET_NOISE_GATE_CMD_ID == 15

\* cloud_alpha_wireless.rs
ALPHA_GET_CHARGING_CMD_ID == 12
ALPHA_GET_CHARGING_RESPONSE_CODE == 38
ALPHA_GET_MIC_CONNECTED_CMD_ID == 8
ALPHA_GET_BATTERY_CMD_ID == 11
ALPHA_GET_BATTERY_RESPONSE_CODE == 37
ALPHA_GET_AUTO_SHUTDOWN_CMD_ID == 7
ALPHA_SET_AUTO_SHUTDOWN_CMD_ID == 18
ALPHA_GET_MUTE_CMD_ID == 10
ALPHA_GET_MUTE_RESPONSE_CODE == 35
ALPHA_SET_MUTE_CMD_ID == 21
ALPHA_GET_PAIRING_CMD_ID == 4
ALPHA_GET_PRODUCT_COLOR_CMD_ID == 14
ALPHA_GET_SIDE_TONE_ON_CMD_ID == 5
ALPHA_GET_SIDE_TONE_ON_RESPONSE_CODE == 34
ALPHA_SET_SIDE_TONE_ON_CMD_ID == 16
ALPHA_GET_SIDE_TONE_VOLUME_CMD_ID == 6
ALPHA_SET_SIDE_TONE_VOLUME_CMD_ID == 17
ALPHA_GET_VOICE_PROMPT_CMD_ID == 9
ALPHA_SET_VOICE_PROMPT_CMD_ID == 19
ALPHA_GET_WIRELESS_STATUS_CMD_ID == 3
ALPHA_GET_WIRELESS_STATUS_RESPONSE_CODE == 36

(***************************************************************************)
(* Typed values carried by events.                                         *)
(***************************************************************************)
\* impl From<u8> for ChargingStatus
ChargingStatusFrom(value) ==
    CASE value = 0 -> "NotCharging"
      [] value = 1 -> "Charging"
      [] value = 2 -> "FullyCharged"
      [] OTHER     -> "ChargeError"

\* impl From<u8> for Color
ColorFrom(color) ==
    CASE color = 0 -> <<"BlackBlack">>
      [] color = 2 -> <<"BlackRed">>
      [] OTHER     -> <<"UnknownColor", color>>

\* One DeviceEvent
Event(tag, val) == [tag |-> tag, val |-> val]

(***************************************************************************)
(* Device State.                                                           *)
(***************************************************************************)
FeatureFields == {"battery_level", "charging", "muted", "mic_connected",
                  "automatic_shutdown_after", "pairing_info", "product_color",
                  "side_tone_on", "side_tone_volume", "surround_sound",
                  "voice_prompt_on", "connected", "silent"}

CapabilityFlags == {"can_set_mute", "can_set_surround_sound", "can_set_side_tone",
                    "can_set_automatic_shutdown", "can_set_side_tone_volume",
                    "can_set_voice_prompt", "can_set_silent_mode", "can_set_equalizer"}

\* The fields that say which HID device the state belongs to
IdentityFields == {"vendor_id", "product_id"}

\* DeviceState::new: every feature unknown, every capability flag false; the
\* identity fields are 0 while no device has been found
DeviceState_new ==
    [f \in FeatureFields \cup CapabilityFlags \cup IdentityFields |->
        IF f \in FeatureFields THEN None
        ELSE IF f \in CapabilityFlags THEN FALSE
        ELSE 0]

\* DeviceState::new for the device it found, dev = <<vendor_id, product_id>>
DeviceState_found(dev) ==
    [DeviceState_new EXCEPT !.vendor_id = dev[1], !.product_id = dev[2]]

\* The field a DeviceEvent variant belongs to; RequireSIRKReset has none
FieldOf(tag) ==
    CASE tag = "BatterLevel"            -> "battery_level"
      [] tag = "Charging"               -> "charging"
      [] tag = "Muted"                  -> "muted"
      [] tag = "MicConnected"           -> "mic_connected"
      [] tag = "AutomaticShutdownAfter" -> "automatic_shutdown_after"
      [] tag = "PairingInfo"            -> "pairing_info"
      [] tag = "ProductColor"           -> "product_color"
      [] tag = "SideToneOn"             -> "side_tone_on"
      [] tag = "SideToneVolume"         -> "side_tone_volume"
      [] tag = "SurroundSound"          -> "surround_sound"
      [] tag = "VoicePrompt"            -> "voice_prompt_on"
      [] tag = "WirelessConnected"      -> "connected"
      [] tag = "Silent"                 -> "silent"
      [] OTHER                          -> "none"

\* variant: events are dropped
update_self_with_event_dropped(state, event) == state

\* variant: an event also forgets the battery level
update_self_with_event_forgetting(state, event) ==
    IF event.tag \in {"RequireSIRKReset", "BatterLevel"}
    THEN state
    ELSE [state EXCEPT ![FieldOf(event.tag)] = Some(event.val), !.battery_level = None]

\* DeviceState::update_self_with_event
update_self_with_event(state, event) ==
    IF event.tag = "RequireSIRKReset"
    THEN state
    ELSE [state EXCEPT ![FieldOf(event.tag)] = Some(event.val)]

\* for event in events { update_self_with_event(&event) }
RECURSIVE MergeEvents(_, _)
MergeEvents(state, events) ==
    IF events = <<>>
    THEN state
    ELSE MergeEvents(update_self_with_event(state, Head(events)), Tail(events))

\* variant: the whole state is reset, the capability flags with it
clear_state_with_flags(state) == DeviceState_new

\* DeviceState::clear_state
clear_state(state) ==
    [f \in DOMAIN state |-> IF f \in FeatureFields THEN None ELSE state[f]]


(***************************************************************************)
(* Codec: Cloud II Wireless (cloud_ii_wireless.rs).                        *)
(***************************************************************************)
\* BASE_PACKET with tmp[15] = cmd
II_Base(cmd) == <<6, 0, 2, 0, 154, 0, 0, 104, 74, 142, 10, 0, 0, 0, 187, cmd>>

II_get_surround_sound_packet == <<6, 0, 0, 0, 255, 0, 0, 104, 74, 142>>

II_get_event_from_device_response(response) ==
    IF Len(response) < 7 THEN None
    ELSE IF At(response, 0) = 11 /\ At(response, 2) = 187 THEN
        CASE At(response, 3) = II_CONNECTION_STATUS_RESPONSE_ID ->
                Some(<<Event("WirelessConnected",
                             At(response, 4) = 1 \/ At(response, 4) = 4)>>)
          [] At(response, 3) = II_GET_BATTERY_CMD_ID ->
                Some(<<Event("BatterLevel", At(response, 7))>>)
          [] At(response, 3) = II_GET_CHARGING_CMD_ID ->
                Some(<<Event("Charging", ChargingStatusFrom(At(response, 4)))>>)
          [] At(response, 3) = II_MUTE_RESPONSE_ID ->
                Some(<<Event("Muted", At(response, 4) = 1)>>)
          [] At(response, 3) = II_FIRMWARE_VERSION_RESPONSE_ID -> None
          [] At(response, 3) = II_SET_SIDE_TONE_ON_CMD_ID ->
                Some(<<Event("SideToneOn", At(response, 4) = 1)>>)
          [] At(response, 3) = II_GET_AUTO_SHUTDOWN_CMD_ID ->
                Some(<<Event("AutomaticShutdownAfter", At(response, 4) * 60)>>)
          [] OTHER -> None
    ELSE IF At(response, 0) = 10 THEN
        Some(<<Event("SurroundSound", Bit1(At(response, 2)) = 1)>>)
    ELSE None

(***************************************************************************)
(* Codec: Cloud II Wireless DTS (cloud_ii_wireless_dts.rs).                *)
(***************************************************************************)
\* BASE_PACKET with tmp[3] = cmd
DTS_Base(cmd) == <<6, 255, 187, cmd>>

\* The arms of the match on (response[2], response[3], response[4], response[7]),
\* in the order of the source: the first arm that matches decides.
DTS_get_event_from_device_response(response) ==
    IF Len(response) < 7 THEN None
    ELSE IF At(response, 0) # 6 \/ At(response, 1) # 255 \/ At(response, 2) # 187 THEN None
    ELSE LET r2 == At(response, 2)
             r3 == At(response, 3)
             r4 == At(response, 4)
             r7 == At(response, 7)
         IN  IF r3 = DTS_GET_CHARGING_CMD_ID THEN
                 Some(<<Event("Charging", ChargingStatusFrom(r4))>>)
             ELSE IF r3 = DTS_GET_MIC_CONNECTED_CMD_ID THEN
                 Some(<<Event("MicConnected", r4 = 1)>>)
             ELSE IF r3 = DTS_GET_BATTERY_CMD_ID THEN
                 Some(<<Event("BatterLevel", r7)>>)
             ELSE IF r3 = DTS_GET_AUTO_SHUTDOWN_CMD_ID THEN
                 Some(<<Event("AutomaticShutdownAfter", r4 * 60)>>)
             ELSE IF r3 = DTS_SET_MUTE_CMD_ID \/ r3 = DTS_GET_MUTE_CMD_ID THEN
                 Some(<<Event("Muted", r4 = 1)>>)
             ELSE IF r3 = DTS_GET_PAIRING_CMD_ID THEN
                 Some(<<Event("PairingInfo", r4)>>)
             ELSE IF r3 = DTS_GET_SIDE_TONE_ON_CMD_ID \/ r3 = DTS_SET_SIDE_TONE_ON_CMD_ID THEN
                 Some(<<Event("SideToneOn", r4 = 1)>>)
             ELSE IF r3 = DTS_GET_SIDE_TONE_VOLUME_CMD_ID THEN
                 Some(<<Event("SideToneVolume", r4)>>)
             ELSE IF r3 = DTS_GET_WIRELESS_STATUS_CMD_ID THEN
                 Some(<<Event("WirelessConnected", r4 = 1 \/ r4 = 4)>>)
             ELSE IF r2 = DTS_GET_VOICE_PROMPT_CMD_ID THEN
                 Some(<<Event("VoicePrompt", r3 = 1)>>)
             ELSE IF r2 = DTS_GET_PRODUCT_COLOR_CMD_ID THEN
                 Some(<<Event("ProductColor", ColorFrom(r3))>>)
             ELSE None

(***************************************************************************)
(* Codec: Cloud III S Wireless (cloud_iii_s_wireless.rs).                  *)
(***************************************************************************)
\* BASE_PACKET with packet[5] = cmd
IIIS_Base(cmd) == <<12, 2, 3, 1, 0, cmd>>

make_mic_packet(mute) ==
    <<IIIS_MIC_HEADER, IF mute THEN IIIS_MIC_OFF_CMD ELSE IIIS_MIC_ON_CMD>>

\* seconds = (minutes * 60) as u16, written big-endian into bytes 6 and 7
make_auto_shutdown_packet(minutes) ==
    LET seconds == (minutes * 60) % 65536
    IN  <<IIIS_AUTO_SHUTDOWN_REPORT_ID, 2, 3, 0, 0, 74, seconds \div 256, seconds % 256>>

parse_automatic_shutdown_payload(high, low) == high * 256 + low

parse_response(response) ==
    IF At(response, 6) = 255 THEN None
    ELSE CASE At(response, 5) = IIIS_DONGLE_CONNECTED_COMMAND_ID ->
                Some(<<Event("WirelessConnected", At(response, 6) = 2)>>)
           [] At(response, 5) = IIIS_GET_MIC_MUTE_COMMAND_ID ->
                Some(<<Event("Muted", At(response, 6) = 1)>>)
           [] At(response, 5) = IIIS_BATTERY_COMMAND_ID ->
                Some(<<Event("BatterLevel", At(response, 6))>>)
           [] At(response, 5) = IIIS_GET_VOICE_PROMPT_COMMAND_ID ->
                Some(<<Event("VoicePrompt", At(response, 6) = 1)>>)
           [] At(response, 5) = IIIS_GET_SIDE_TONE_COMMAND_ID ->
                Some(<<Event("SideToneOn", At(response, 6) = 1)>>)
           [] At(response, 5) = IIIS_CHARGE_STATE_COMMAND_ID ->
                Some(<<Event("Charging", ChargingStatusFrom(At(response, 6)))>>)
           [] At(response, 5) = IIIS_GET_AUTO_POWER_OFF_COMMAND_ID ->
                Some(<<Event("AutomaticShutdownAfter",
                             parse_automatic_shutdown_payload(At(response, 6),
                                                              At(response, 7)))>>)
           [] At(response, 5) = IIIS_COLOR_COMMAND_ID ->
                Some(<<Event("ProductColor", ColorFrom(At(response, 6)))>>)
           [] OTHER -> None

parse_notification(response) ==
    CASE At(response, 4) = 1  -> Some(<<Event("BatterLevel", At(response, 5))>>)
      [] At(response, 4) = 3  -> Some(<<Event("Muted", At(response, 5) = 1)>>)
      [] At(response, 4) = 5  -> Some(<<Event("SideToneOn", At(response, 5) = 1)>>)
      [] At(response, 4) = 10 ->
            Some(<<Event("Charging", ChargingStatusFrom(At(response, 5)))>>)
      [] At(response, 4) = 12 ->
            Some(<<Event("WirelessConnected", At(response, 5) = 1)>>)
      [] OTHER -> None

\* .clamp(-1200.0, 1200.0), on hundredths of a dB
ClampCentiDb(centi) ==
    IF centi < -1200 THEN -1200 ELSE IF centi > 1200 THEN 1200 ELSE centi

\* i16::to_be_bytes
I16BeBytes(v) ==
    LET u == (v + 65536) % 65536
    IN  <<u \div 256, u % 256>>

\* f32 arithmetic on the gain.  A gain is given as the decimal it is typed as,
\* in hundredths of a dB; the f32 that holds it is the nearest one (24-bit
\* significand, ties to even), and so is the f32 product with 100.0.
RoundHalfEven(n, d) ==
    LET q == n \div d
        r == n % d
    IN  IF 2 * r > d \/ (2 * r = d /\ q % 2 = 1) THEN q + 1 ELSE q

RECURSIVE Pow2(_)
Pow2(n) == IF n = 0 THEN 1 ELSE 2 * Pow2(n - 1)

\* <<a * 2^s, s>> for the s that puts a * 2^s / 100 in [2^23, 2^24)
RECURSIVE F32Normalize(_, _)
F32Normalize(v, s) ==
    IF v < 50 * Pow2(24) THEN F32Normalize(2 * v, s + 1) ELSE <<v, s>>

\* the number of low bits a product loses to fit 24 bits
RECURSIVE F32DropBits(_, _)
F32DropBits(p, d) ==
    IF p \div Pow2(d) >= Pow2(24) THEN F32DropBits(p, d + 1) ELSE d

\* (db_value * 100.0) as i16 for the f32 db_value nearest to centi / 100: the
\* significand of db_value, the product rounded to f32, the cast truncating
\* towards zero
F32TimesHundred(centi) ==
    LET a    == IF centi < 0 THEN 0 - centi ELSE centi
        norm == F32Normalize(a, 0)
        m    == RoundHalfEven(norm[1], 100)
        d    == F32DropBits(m * 100, 0)
        q    == RoundHalfEven(m * 100, Pow2(d))
        t    == (q * Pow2(d)) \div Pow2(norm[2])
    IN  IF a = 0 THEN 0 ELSE IF centi < 0 THEN 0 - t ELSE t

\* one packet of set_equalizer_bands_packets: EQ_REPORT_ID, EQ_CMD, band, value;
\* clamping the product and then truncating it is truncating and then clamping
IIIS_EqPacket(band) ==
    <<IIIS_EQ_REPORT_ID, 2, 3, 0, 0, 95, band[1]>>
        \o I16BeBytes(ClampCentiDb(F32TimesHundred(band[2])))

\* variant: the packets come out last band first
IIIS_set_equalizer_bands_packets_reversed(bands) ==
    IF bands = <<>> \/ \E i \in 1..Len(bands) : bands[i][1] > 9
    THEN None
    ELSE Some([i \in 1..Len(bands) |-> IIIS_EqPacket(bands[Len(bands) + 1 - i])])

\* CloudIIISWireless::set_equalizer_bands_packets; a band is <<index, gain>>,
\* the gain in hundredths of a dB
IIIS_set_equalizer_bands_packets(bands) ==
    IF bands = <<>> \/ \E i \in 1..Len(bands) : bands[i][1] > 9
    THEN None
    ELSE Some([i \in 1..Len(bands) |-> IIIS_EqPacket(bands[i])])

IIIS_get_event_from_device_response(response) ==
    CASE At(response, 0) = IIIS_MIC_HEADER ->
            Some(<<Event("Muted", Bit1(At(response, 1)) # 0)>>)
      [] At(response, 0) = IIIS_CONSUMER_CONTROL_HEADER -> None
      [] At(response, 0) = IIIS_RESPONSE_ID -> parse_response(response)
      [] At(response, 0) = IIIS_NOTIFICATION_ID -> parse_notification(response)
      [] OTHER -> None

(***************************************************************************)
(* Codec: Cloud III Wireless (cloud_iii_wireless.rs).                      *)
(***************************************************************************)
\* BASE_PACKET with tmp[1] = cmd
III_Base(cmd) == <<102, cmd>>

\* for item in response.iter().take(18).skip(2): any byte other than 0
SirkFlag(response) == \E i \in 2..(Len(response) - 1) : i < 18 /\ At(response, i) # 0

III_get_event_from_device_response(response) ==
    IF At(response, 0) # 102 THEN None
    ELSE LET r1 == At(response, 1)
             r2 == At(response, 2)
             r3 == At(response, 3)
             r4 == At(response, 4)
         IN  IF r1 = III_GET_MUTE_CMD_ID \/ r1 = III_MUTE_RESPONSE_ID THEN
                 Some(<<Event("Muted", r2 = 1)>>)
             ELSE IF r1 = III_GET_WIRELESS_STATUS_CMD_ID
                     \/ r1 = III_WIRELESS_STATUS_RESPONSE_ID THEN
                 Some(<<Event("WirelessConnected", r2 = 1)>>)
             ELSE IF r1 = III_GET_CHARGING_CMD_ID \/ r1 = III_CHARGING_RESPONSE_ID THEN
                 Some(<<Event("Charging", ChargingStatusFrom(r2))>>)
             ELSE IF r1 = III_GET_BATTERY_CMD_ID \/ r1 = III_BATTERY_RESPONSE_ID THEN
                 IF r2 # 0 \/ r3 # 0
                 THEN Some(<<Event("BatterLevel", r4)>>)
                 ELSE None
             ELSE IF r1 = III_GET_AUTO_SHUTDOWN_CMD_ID THEN
                 Some(<<Event("AutomaticShutdownAfter", r2 * 60)>>)
             ELSE IF r1 = III_GET_PRODUCT_COLOR_CMD_ID THEN
                 Some(<<Event("ProductColor", ColorFrom(r2))>>)
             ELSE IF r1 = III_GET_SILENT_MODE_CMD_ID THEN
                 Some(<<Event("Silent", r2 = 1)>>)
             ELSE IF r1 = III_GET_SIRK_CMD_ID THEN
                 Some(<<Event("RequireSIRKReset", SirkFlag(response))>>)
             ELSE None

(***************************************************************************)
(* Codec: Cloud II Core Wireless (cloud_ii_core_wireless.rs).  mod.rs does  *)
(* not resolve a device to it; its decoder is checked on its own.          *)
(***************************************************************************)
\* variant: an offset byte of 251..255 is no volume either
CORE_side_tone_volume_unsigned(status) ==
    IF status <= 5 THEN status ELSE 0

\* the side-tone volume of a report: (status as i32 | -256i32) as u8 for
\* status >= 251 (the OR sets every bit above the low eight, which gives
\* status - 256, and the cast keeps the low eight bits), status for 0..=5,
\* else 0
CORE_side_tone_volume(status) ==
    IF status >= 251 THEN (status - 256) % 256
    ELSE IF status <= 5 THEN status
    ELSE 0

CORE_get_event_from_device_response(response) ==
    IF At(response, 0) # 102 THEN None
    ELSE LET r1 == At(response, 1)
             r2 == At(response, 2)
             r3 == At(response, 3)
             r4 == At(response, 4)
         IN  IF r1 = CORE_GET_CHARGING_CMD_ID \/ r1 = CORE_CHARGING_RESPONSE_ID THEN
                 Some(<<Event("Charging", ChargingStatusFrom(r2))>>)
             ELSE IF r1 = CORE_GET_MIC_CONNECTED_CMD_ID
                     \/ r1 = CORE_MIC_CONNECTED_RESPONSE_ID THEN
                 Some(<<Event("MicConnected", r2 = 1)>>)
             ELSE IF r1 = CORE_GET_BATTERY_CMD_ID \/ r1 = CORE_BATTERY_RESPONSE_ID THEN
                 IF r2 # 0 \/ r3 # 0
                 THEN Some(<<Event("BatterLevel", r4)>>)
                 ELSE None
             ELSE IF r1 = CORE_GET_AUTO_SHUTDOWN_CMD_ID
                     \/ r1 = CORE_SET_AUTO_SHUTDOWN_CMD_ID THEN
                 Some(<<Event("AutomaticShutdownAfter", r2 * 60)>>)
             ELSE IF r1 = CORE_SET_MUTE_CMD_ID \/ r1 = CORE_GET_MUTE_CMD_ID
                     \/ r1 = CORE_MUTE_RESPONSE_ID THEN
                 Some(<<Event("Muted", r2 = 1)>>)
             ELSE IF r1 = CORE_GET_PAIRING_CMD_ID THEN
                 Some(<<Event("PairingInfo", r2)>>)
             ELSE IF r1 = CORE_GET_SIDE_TONE_ON_CMD_ID \/ r1 = CORE_SET_SIDE_TONE_ON_CMD_ID
                     \/ r1 = CORE_SIDE_TONE_RESPONSE_ID THEN
                 Some(<<Event("SideToneOn", r2 = 1)>>)
             ELSE IF r1 = CORE_GET_SIDE_TONE_VOLUME_CMD_ID
                     \/ r1 = CORE_SET_SIDE_TONE_VOLUME_CMD_ID THEN
                 Some(<<Event("SideToneVolume", CORE_side_tone_volume(r2))>>)
             ELSE IF r1 = CORE_GET_WIRELESS_STATUS_CMD_ID
                     \/ r1 = CORE_WIRELESS_STATUS_RESPONSE_ID THEN
                 Some(<<Event("WirelessConnected", r2 = 1)>>)
             ELSE IF r1 = CORE_GET_PLAY_BACK_MUTE_CMD_ID
                     \/ r1 = CORE_SET_PLAY_BACK_MUTE_CMD_ID THEN
                 Some(<<Event("Silent", r2 = 1)>>)
             ELSE IF r1 = CORE_GET_NOISE_GATE_CMD_ID \/ r1 = CORE_SET_NOISE_GATE_CMD_ID THEN
                 Some(<<Event("NoiseGateActive", r2 = 1)>>)
             ELSE None

(***************************************************************************)
(* Codec: Cloud Alpha Wireless (cloud_alpha_wireless.rs); not resolved by  *)
(* mod.rs either.                                                          *)
(***************************************************************************)
ALPHA_get_event_from_device_response(response) ==
    IF At(response, 0) # 33 \/ At(response, 1) # 187 THEN None
    ELSE LET r2 == At(response, 2)
             r3 == At(response, 3)
         IN  IF r2 = ALPHA_GET_CHARGING_RESPONSE_CODE \/ r2 = ALPHA_GET_CHARGING_CMD_ID THEN
                 Some(<<Event("Charging", ChargingStatusFrom(r3))>>)
             ELSE IF r2 = ALPHA_GET_MIC_CONNECTED_CMD_ID THEN
                 Some(<<Event("MicConnected", r3 = 1)>>)
             ELSE IF r2 = ALPHA_GET_BATTERY_RESPONSE_CODE \/ r2 = ALPHA_GET_BATTERY_CMD_ID THEN
                 Some(<<Event("BatterLevel", r3)>>)
             ELSE IF r2 = ALPHA_SET_AUTO_SHUTDOWN_CMD_ID
                     \/ r2 = ALPHA_GET_AUTO_SHUTDOWN_CMD_ID THEN
                 Some(<<Event("AutomaticShutdownAfter", r3 * 60)>>)
             ELSE IF r2 = ALPHA_SET_MUTE_CMD_ID \/ r2 = ALPHA_GET_MUTE_RESPONSE_CODE
                     \/ r2 = ALPHA_GET_MUTE_CMD_ID THEN
                 Some(<<Event("Muted", r3 = 1)>>)
             ELSE IF r2 = ALPHA_GET_PAIRING_CMD_ID THEN
                 Some(<<Event("PairingInfo", r3)>>)
             ELSE IF r2 = ALPHA_SET_SIDE_TONE_ON_CMD_ID
                     \/ r2 = ALPHA_GET_SIDE_TONE_ON_RESPONSE_CODE
                     \/ r2 = ALPHA_GET_SIDE_TONE_ON_CMD_ID THEN
                 Some(<<Event("SideToneOn", r3 = 1)>>)
             ELSE IF r2 = ALPHA_SET_SIDE_TONE_VOLUME_CMD_ID
                     \/ r2 = ALPHA_GET_SIDE_TONE_VOLUME_CMD_ID THEN
                 Some(<<Event("SideToneVolume", r3)>>)
             ELSE IF r2 = ALPHA_GET_WIRELESS_STATUS_RESPONSE_CODE
                     \/ r2 = ALPHA_GET_WIRELESS_STATUS_CMD_ID THEN
                 Some(<<Event("WirelessConnected", r3 = 2)>>)
             ELSE IF r2 = ALPHA_SET_VOICE_PROMPT_CMD_ID
                     \/ r2 = ALPHA_GET_VOICE_PROMPT_CMD_ID THEN
                 Some(<<Event("VoicePrompt", r3 = 1)>>)
             ELSE IF r2 = ALPHA_GET_PRODUCT_COLOR_CMD_ID THEN
                 Some(<<Event("ProductColor", ColorFrom(r3))>>)
             ELSE None


(***************************************************************************)
(* The Device trait: the encoders of each codec (impl Device for ...).     *)
(***************************************************************************)
get_wireless_connected_status_packet(m) ==
    CASE m = "CloudII"    -> None
      [] m = "CloudIIDTS" -> None
      [] m = "CloudIIIS"  -> Some(IIIS_Base(IIIS_DONGLE_CONNECTED_COMMAND_ID))
      [] m = "CloudIII"   -> Some(III_Base(III_GET_WIRELESS_STATUS_CMD_ID))

get_charging_packet(m) ==
    CASE m = "CloudII"    -> Some(II_Base(II_GET_CHARGING_CMD_ID))
      [] m = "CloudIIDTS" -> Some(DTS_Base(DTS_GET_CHARGING_CMD_ID))
      [] m = "CloudIIIS"  -> Some(IIIS_Base(IIIS_CHARGE_STATE_COMMAND_ID))
      [] m = "CloudIII"   -> Some(III_Base(III_GET_CHARGING_CMD_ID))

get_battery_packet(m) ==
    CASE m = "CloudII"    -> Some(II_Base(II_GET_BATTERY_CMD_ID))
      [] m = "CloudIIDTS" -> Some(DTS_Base(DTS_GET_BATTERY_CMD_ID))
      [] m = "CloudIIIS"  -> Some(IIIS_Base(IIIS_BATTERY_COMMAND_ID))
      [] m = "CloudIII"   -> Some(III_Base(III_GET_BATTERY_CMD_ID))

get_automatic_shut_down_packet(m) ==
    CASE m = "CloudII"    -> Some(II_Base(II_GET_AUTO_SHUTDOWN_CMD_ID))
      [] m = "CloudIIDTS" -> Some(DTS_Base(DTS_GET_AUTO_SHUTDOWN_CMD_ID))
      [] m = "CloudIIIS"  -> Some(IIIS_Base(IIIS_GET_AUTO_POWER_OFF_COMMAND_ID))
      [] m = "CloudIII"   -> Some(III_Base(III_GET_AUTO_SHUTDOWN_CMD_ID))

get_mute_packet(m) ==
    CASE m = "CloudII"    -> Some(II_Base(II_GET_MUTE_CMD_ID))
      [] m = "CloudIIDTS" -> Some(DTS_Base(DTS_GET_MUTE_CMD_ID))
      [] m = "CloudIIIS"  -> Some(IIIS_Base(IIIS_GET_MIC_MUTE_COMMAND_ID))
      [] m = "CloudIII"   -> Some(III_Base(III_GET_MUTE_CMD_ID))

get_surround_sound_packet(m) ==
    CASE m = "CloudII"    -> Some(II_get_surround_sound_packet)
      [] m = "CloudIIDTS" -> None
      [] m = "CloudIIIS"  -> None
      [] m = "CloudIII"   -> None

get_mic_connected_packet(m) ==
    CASE m = "CloudII"    -> None
      [] m = "CloudIIDTS" -> Some(DTS_Base(DTS_GET_MIC_CONNECTED_CMD_ID))
      [] m = "CloudIIIS"  -> None
      [] m = "CloudIII"   -> None

get_pairing_info_packet(m) ==
    CASE m = "CloudII"    -> None
      [] m = "CloudIIDTS" -> Some(DTS_Base(DTS_GET_PAIRING_CMD_ID))
      [] m = "CloudIIIS"  -> None
      [] m = "CloudIII"   -> None

get_product_color_packet(m) ==
    CASE m = "CloudII"    -> None
      [] m = "CloudIIDTS" -> None
      [] m = "CloudIIIS"  -> Some(IIIS_Base(IIIS_COLOR_COMMAND_ID))
      [] m = "CloudIII"   -> Some(III_Base(III_GET_PRODUCT_COLOR_CMD_ID))

get_side_tone_packet(m) ==
    CASE m = "CloudII"    -> None
      [] m = "CloudIIDTS" -> Some(DTS_Base(DTS_GET_SIDE_TONE_ON_CMD_ID))
      [] m = "CloudIIIS"  -> Some(IIIS_Base(IIIS_GET_SIDE_TONE_COMMAND_ID))
      [] m = "CloudIII"   -> Some(III_Base(III_GET_SIDE_TONE_ON_CMD_ID))

get_side_tone_volume_packet(m) ==
    CASE m = "CloudII"    -> None
      [] m = "CloudIIDTS" -> Some(DTS_Base(DTS_GET_SIDE_TONE_VOLUME_CMD_ID))
      [] m = "CloudIIIS"  -> None
      [] m = "CloudIII"   -> Some(III_Base(III_GET_SIDE_TONE_VOLUME_CMD_ID))

get_voice_prompt_packet(m) ==
    CASE m = "CloudII"    -> None
      [] m = "CloudIIDTS" -> None
      [] m = "CloudIIIS"  -> Some(IIIS_Base(IIIS_GET_VOICE_PROMPT_COMMAND_ID))
      [] m = "CloudIII"   -> None

get_sirk_packet(m) ==
    CASE m = "CloudII"    -> None
      [] m = "CloudIIDTS" -> None
      [] m = "CloudIIIS"  -> None
      [] m = "CloudIII"   -> Some(III_Base(III_GET_SIRK_CMD_ID))

get_silent_mode_packet(m) ==
    CASE m = "CloudII"    -> None
      [] m = "CloudIIDTS" -> None
      [] m = "CloudIIIS"  -> None
      [] m = "CloudIII"   -> Some(III_Base(III_GET_SILENT_MODE_CMD_ID))

set_mute_packet(m, mute) ==
    CASE m = "CloudII"    -> None
      [] m = "CloudIIDTS" -> Some(DTS_Base(DTS_SET_MUTE_CMD_ID) \o <<BoolByte(mute)>>)
      [] m = "CloudIIIS"  -> Some(make_mic_packet(mute))
      [] m = "CloudIII"   -> Some(III_Base(III_SET_MUTE_CMD_ID) \o <<BoolByte(mute)>>)

set_surround_sound_packet(m, surround_sound) ==
    CASE m = "CloudII"    -> None
      [] m = "CloudIIDTS" -> None
      [] m = "CloudIIIS"  -> None
      [] m = "CloudIII"   -> None

set_side_tone_packet(m, side_tone_on) ==
    CASE m = "CloudII"    -> Some(II_Base(II_SET_SIDE_TONE_ON_CMD_ID) \o <<BoolByte(side_tone_on)>>)
      [] m = "CloudIIDTS" -> Some(DTS_Base(DTS_SET_SIDE_TONE_ON_CMD_ID) \o <<BoolByte(side_tone_on)>>)
      [] m = "CloudIIIS"  -> None
      [] m = "CloudIII"   -> Some(III_Base(III_SET_SIDE_TONE_ON_CMD_ID) \o <<BoolByte(side_tone_on)>>)

\* shutdown_after in seconds; (as_secs() / 60) as u8
set_automatic_shut_down_packet(m, shutdown_after) ==
    CASE m = "CloudII"    -> Some(II_Base(II_SET_AUTO_SHUTDOWN_CMD_ID) \o <<(shutdown_after \div 60) % 256>>)
      [] m = "CloudIIDTS" -> Some(DTS_Base(DTS_SET_AUTO_SHUTDOWN_CMD_ID) \o <<(shutdown_after \div 60) % 256>>)
      [] m = "CloudIIIS"  -> Some(make_auto_shutdown_packet(shutdown_after \div 60))
      [] m = "CloudIII"   -> Some(III_Base(III_SET_AUTO_SHUTDOWN_CMD_ID) \o <<(shutdown_after \div 60) % 256>>)

set_side_tone_volume_packet(m, volume) ==
    CASE m = "CloudII"    -> None
      [] m = "CloudIIDTS" -> Some(DTS_Base(DTS_SET_SIDE_TONE_VOLUME_CMD_ID) \o <<volume>>)
      [] m = "CloudIIIS"  -> None
      [] m = "CloudIII"   -> Some(III_Base(III_SET_SIDE_TONE_VOLUME_CMD_ID) \o <<volume>>)

set_voice_prompt_packet(m, enable) ==
    CASE m = "CloudII"    -> None
      [] m = "CloudIIDTS" -> None
      [] m = "CloudIIIS"  -> None
      [] m = "CloudIII"   -> None

set_silent_mode_packet(m, silence) ==
    CASE m = "CloudII"    -> None
      [] m = "CloudIIDTS" -> None
      [] m = "CloudIIIS"  -> None
      [] m = "CloudIII"   -> Some(III_Base(III_SET_SILENT_MODE_CMD_ID) \o <<BoolByte(silence)>>)

\* Device::set_equalizer_band_packet: the trait's default, which no codec overrides
set_equalizer_band_packet(m, band_index, db_value) == None

\* Device::set_equalizer_bands_packets: Cloud III S implements it, the other
\* codecs have the default
set_equalizer_bands_packets(m, bands) ==
    IF m = "CloudIIIS" THEN IIIS_set_equalizer_bands_packets(bands) ELSE None

get_event_from_device_response(m, response) ==
    CASE m = "CloudII"    -> II_get_event_from_device_response(response)
      [] m = "CloudIIDTS" -> DTS_get_event_from_device_response(response)
      [] m = "CloudIIIS"  -> IIIS_get_event_from_device_response(response)
      [] m = "CloudIII"   -> III_get_event_from_device_response(response)
      [] m = "CloudIICore" -> CORE_get_event_from_device_response(response)
      [] m = "CloudAlpha"  -> ALPHA_get_event_from_device_response(response)

allow_passive_refresh(m) ==
    CASE m = "CloudII"    -> FALSE
      [] m = "CloudIIDTS" -> TRUE
      [] m = "CloudIIIS"  -> TRUE
      [] m = "CloudIII"   -> TRUE

\* prepare_write: only Cloud II reads an input report before every write
PrimesBeforeWrite(m) == m = "CloudII"

\* <Codec>::new_from_state: Cloud II and Cloud II DTS start as connected
new_from_state(m, state) ==
    IF m \in {"CloudII", "CloudIIDTS"}
    THEN [state EXCEPT !.connected = Some(TRUE)]
    ELSE state

\* Device::can_set_*: the set-encoder called with its placeholder argument
can_set(m, flag) ==
    CASE flag = "can_set_mute"               -> IsSome(set_mute_packet(m, FALSE))
      [] flag = "can_set_surround_sound"     -> IsSome(set_surround_sound_packet(m, FALSE))
      [] flag = "can_set_side_tone"          -> IsSome(set_side_tone_packet(m, FALSE))
      [] flag = "can_set_automatic_shutdown" -> IsSome(set_automatic_shut_down_packet(m, 0))
      [] flag = "can_set_side_tone_volume"   -> IsSome(set_side_tone_volume_packet(m, 0))
      [] flag = "can_set_voice_prompt"       -> IsSome(set_voice_prompt_packet(m, FALSE))
      [] flag = "can_set_silent_mode"        -> IsSome(set_silent_mode_packet(m, FALSE))
      [] flag = "can_set_equalizer"          -> IsSome(set_equalizer_band_packet(m, 0, 0))

\* Device::init_capabilities
init_capabilities(m, state) ==
    [state EXCEPT !.can_set_mute               = can_set(m, "can_set_mute"),
                  !.can_set_surround_sound     = can_set(m, "can_set_surround_sound"),
                  !.can_set_side_tone          = can_set(m, "can_set_side_tone"),
                  !.can_set_automatic_shutdown = can_set(m, "can_set_automatic_shutdown"),
                  !.can_set_side_tone_volume   = can_set(m, "can_set_side_tone_volume"),
                  !.can_set_voice_prompt       = can_set(m, "can_set_voice_prompt"),
                  !.can_set_silent_mode        = can_set(m, "can_set_silent_mode"),
                  !.can_set_equalizer          = can_set(m, "can_set_equalizer")]


(***************************************************************************)
(* The connection resolver (connect_compatible_device, DeviceState::new).  *)
(***************************************************************************)
\* const HYPERX: u16 = 0x0951, const HP: u16 = 0x03F0
HYPERX == 2385
HP == 1008

\* mod.rs: VENDOR_IDS = [0x0951, 0x03F0]
VENDOR_IDS == {2385, 1008}

\* mod.rs: PRODUCT_IDS = [0x1718, 0x018B, 0x0D93, 0x0696, 0x0b92, 0x05B7, 0x16EA,
\* 0x0c9d, 0x06BE]
PRODUCT_IDS == {5912, 395, 3475, 1686, 2962, 1463, 5866, 3229, 1726}

\* variant: every codec claims both vendors
VENDOR_IDS_both(m) == {HYPERX, HP}

\* <codec>::VENDOR_IDS
VENDOR_IDS_of(m) ==
    CASE m = "CloudII"    -> {HYPERX}
      [] m = "CloudIIDTS" -> {HP}
      [] m = "CloudIIIS"  -> {HP}
      [] m = "CloudIII"   -> {HP}

\* <codec>::PRODUCT_IDS
PRODUCT_IDS_of(m) ==
    CASE m = "CloudII"    -> {5912, 395, 2962, 5866, 5867}
      [] m = "CloudIIDTS" -> {5912, 395, 3475, 1686}
      [] m = "CloudIIIS"  -> {1726}
      [] m = "CloudIII"   -> {1463}

\* A device of the enumeration is <<vendor_id, product_id>>.
\* <codec>::VENDOR_IDS.contains(&v) && <codec>::PRODUCT_IDS.contains(&p)
Claims(m, dev) == dev[1] \in VENDOR_IDS_of(m) /\ dev[2] \in PRODUCT_IDS_of(m)

\* DeviceState::new, find_map: the index of the first enumerated device whose
\* product is in PRODUCT_IDS and whose vendor is in VENDOR_IDS, 0 if there is none
FirstListed(bus) ==
    LET hits == { i \in 1..Len(bus) : bus[i][2] \in PRODUCT_IDS /\ bus[i][1] \in VENDOR_IDS }
    IN  IF hits = {} THEN 0 ELSE CHOOSE i \in hits : \A j \in hits : i <= j

\* connect_compatible_device: match (state.vendor_id, state.product_id), the arms
\* in the order of the source
CodecFor(dev) ==
    IF Claims("CloudII", dev) THEN "CloudII"
    ELSE IF Claims("CloudIIDTS", dev) THEN "CloudIIDTS"
    ELSE IF Claims("CloudIIIS", dev) THEN "CloudIIIS"
    ELSE IF Claims("CloudIII", dev) THEN "CloudIII"
    ELSE "none"

\* What the HID library does during one connect attempt: all calls succeed,
\* HidApi::new fails, open fails, get_product_string fails, or the device has
\* no product string
HidOutcomes == {"ok", "api_err", "open_err", "name_err", "no_name"}

ConnectResult(res, codec) == [res |-> res, codec |-> codec]

\* connect_compatible_device() on the enumeration bus
connect_compatible_device(bus, io) ==
    IF io = "api_err" THEN ConnectResult("HidError", "none")
    ELSE IF FirstListed(bus) = 0 THEN ConnectResult("NoDeviceFound", "none")
    ELSE IF io \in {"open_err", "name_err"} THEN ConnectResult("HidError", "none")
    ELSE IF io = "no_name" THEN ConnectResult("NoDeviceFound", "none")
    ELSE IF CodecFor(bus[FirstListed(bus)]) = "none"
         THEN ConnectResult("NoDeviceFound", "none")
    ELSE ConnectResult("Ok", CodecFor(bus[FirstListed(bus)]))

(***************************************************************************)
(* The refresh engine (trait Device, default methods).                     *)
(***************************************************************************)
\* variant: the battery query ahead of the charging query
SweepOrderBatteryFirst(m) ==
    << get_wireless_connected_status_packet(m),
       get_battery_packet(m),
       get_charging_packet(m),
       get_automatic_shut_down_packet(m),
       get_mute_packet(m),
       get_surround_sound_packet(m),
       get_mic_connected_packet(m),
       get_pairing_info_packet(m),
       get_product_color_packet(m),
       get_side_tone_packet(m),
       get_side_tone_volume_packet(m),
       get_voice_prompt_packet(m),
       get_sirk_packet(m),
       get_silent_mode_packet(m) >>

\* active_refresh_state: let packets = vec![...], in the order of the source
SweepOrder(m) ==
    << get_wireless_connected_status_packet(m),
       get_charging_packet(m),
       get_battery_packet(m),
       get_automatic_shut_down_packet(m),
       get_mute_packet(m),
       get_surround_sound_packet(m),
       get_mic_connected_packet(m),
       get_pairing_info_packet(m),
       get_product_color_packet(m),
       get_side_tone_packet(m),
       get_side_tone_volume_packet(m),
       get_voice_prompt_packet(m),
       get_sirk_packet(m),
       get_silent_mode_packet(m) >>

\* packets.into_iter().flatten(): the Some(..) entries, in order
RECURSIVE Flatten(_)
Flatten(options) ==
    IF options = <<>> THEN <<>> ELSE Head(options) \o Flatten(Tail(options))

Packets(m) == Flatten(SweepOrder(m))

\* wait_for_updates: a failed read (.ok()?) and a read of 0 bytes both give None,
\* anything else is handed to the codec's decoder
wait_for_updates(m, outcome) ==
    IF outcome.tag = "error" THEN None
    ELSE IF outcome.tag = "timeout" THEN None
    ELSE get_event_from_device_response(m, outcome.data)

\* if let Some(events) = self.wait_for_updates(..) { merge every event }
MergeUpdates(state, updates) ==
    IF IsSome(updates) THEN MergeEvents(state, updates[1]) ELSE state

\* variant: responded is set whatever the read gave
RespondedAlways(before, updates) == TRUE

\* ... { ...; responded = true }
Responded(before, updates) == before \/ IsSome(updates)

\* variant: the sweep never breaks
SweepGoesOnAlways(state) == TRUE

\* variant: break only on an explicit Some(false)
SweepGoesOnUnlessDisconnected(state) == state.connected # Some(FALSE)

\* if !matches!(self.get_device_state().connected, Some(true)) { break; }
SweepGoesOn(state) == state.connected = Some(TRUE)

\* if responded { Ok(()) } else { Err(DeviceError::NoResponse()) }
SweepResult(resp) == IF resp THEN "Ok" ELSE "NoResponse"

\* variant: the result of the write is dropped
WriteResultIgnored(write_ok) == "Ok"

\* hid_device.write(&packet)?: a failed write ends the refresh with the HidError
WriteResult(write_ok) == IF write_ok THEN "Ok" ELSE "HidError"

\* variant: the passive refresh asks for the mute state
PassiveQueryMute(m) == get_mute_packet(m)

\* passive_refresh_state: if let Some(batter_packet) = self.get_battery_packet()
PassiveQuery(m) == get_battery_packet(m)

(***************************************************************************)
(* The environment: the simulated headset behind the transport handle.     *)
(***************************************************************************)
\* The report a headset sends in answer to a get packet: the command byte of
\* the packet echoed where the codec's decoder looks for it, the payload
\* bytes all equal to b.
Reply(m, packet, b) ==
    CASE m = "CloudII" ->
            IF packet = II_get_surround_sound_packet
            THEN <<10, 0, b, 0, 0, 0, 0, 0>>
            ELSE <<11, 0, 187, At(packet, 15), b, b, b, b>>
      [] m = "CloudIIDTS" -> <<6, 255, 187, At(packet, 3), b, b, b, b>>
      [] m = "CloudIIIS"  -> <<IIIS_RESPONSE_ID, 2, 3, 1, 0, At(packet, 5), b, b>>
      [] m = "CloudIII"   -> <<102, At(packet, 1), b, b, b, 0, 0, 0>>

\* The unsolicited report a headset pushes when the microphone is (un)muted
MutePush(m, v) ==
    CASE m = "CloudII"    -> <<11, 0, 187, II_MUTE_RESPONSE_ID, BoolByte(v), 0, 0, 0>>
      [] m = "CloudIIDTS" -> <<6, 255, 187, DTS_SET_MUTE_CMD_ID, BoolByte(v), 0, 0, 0>>
      [] m = "CloudIIIS"  -> make_mic_packet(v) \o <<0, 0, 0, 0, 0, 0>>
      [] m = "CloudIII"   -> <<102, III_MUTE_RESPONSE_ID, BoolByte(v), 0, 0, 0, 0, 0>>

\* The unsolicited report a dongle pushes when the headset (dis)connects
ConnPush(m, v) ==
    CASE m = "CloudII" ->
            <<11, 0, 187, II_CONNECTION_STATUS_RESPONSE_ID, BoolByte(v), 0, 0, 0>>
      [] m = "CloudIIDTS" ->
            <<6, 255, 187, DTS_GET_WIRELESS_STATUS_CMD_ID, BoolByte(v), 0, 0, 0>>
      [] m = "CloudIIIS" -> <<IIIS_NOTIFICATION_ID, 0, 0, 0, 12, BoolByte(v), 0, 0>>
      [] m = "CloudIII" ->
            <<102, III_WIRELESS_STATUS_RESPONSE_ID, BoolByte(v), 0, 0, 0, 0, 0>>

\* A report no codec knows
Garbage == <<1, 0, 0, 0, 0, 0, 0, 0>>

\* What one read_timeout call gives
Outcome(tag, val, data) == [tag |-> tag, val |-> val, data |-> data]

Timeout == Outcome("timeout", FALSE, <<>>)

FaultOutcomes(m) ==
    { Timeout, Outcome("error", FALSE, <<>>), Outcome("garbage", FALSE, Garbage) }
    \cup { Outcome("mute_push", v, MutePush(m, v)) : v \in BOOLEAN }
    \cup { Outcome("conn_push", v, ConnPush(m, v)) : v \in BOOLEAN }

\* The read that follows the write of a get packet
AfterWriteOutcomes(m, packet) ==
    IF tmode = "silent"
    THEN {Timeout}
    ELSE {Outcome("reply", FALSE, Reply(m, packet, hw))}
         \cup (IF faults < MaxFaults THEN FaultOutcomes(m) ELSE {})

\* The read of a passive refresh that no write precedes
ListenOutcomes(m) ==
    IF tmode = "silent"
    THEN {Timeout}
    ELSE {Timeout} \cup (IF faults < MaxFaults THEN FaultOutcomes(m) ELSE {})

FaultCost(outcome, plain) == IF outcome.tag = plain THEN 0 ELSE 1

\* Entries of the transport log
LogEntry(op, packet, outcome) == [op |-> op, pkt |-> packet, out |-> outcome]

LogRead(outcome) == LogEntry("read", <<>>, outcome)

\* self.prepare_write(); hid_device.write(&packet)
LogWrite(m, packet, write_ok) ==
    (IF PrimesBeforeWrite(m) THEN <<LogEntry("prime", <<>>, Timeout)>> ELSE <<>>)
    \o <<LogEntry(IF write_ok THEN "write" ELSE "write_err", packet, Timeout)>>


(***************************************************************************)
(* The tray main loop (main.rs).                                           *)
(***************************************************************************)
\* if run_counter % 30 == 0 { active_refresh_state } else { passive_refresh_state }
ActivePeriod == 30

\* variant: the active refresh is the last of every 30 ticks, not the first
RefreshKindSkewed(counter) ==
    IF (counter + 1) % ActivePeriod = 0 THEN "active" ELSE "passive"

RefreshKind(counter) == IF counter % ActivePeriod = 0 THEN "active" ELSE "passive"

\* variant: the run loop goes on whatever the refresh returned
AfterRefreshStays(res) == "tick"

\* match refresh { Ok(()) => (), Err(error) => { ...; break } }: where the loop goes on
AfterRefresh(res) == IF res = "Ok" THEN "tick" ELSE "connect"

Init ==
    /\ pc = "connect"
    /\ attached = <<>>
    /\ model = "none"
    /\ ds = DeviceState_new
    /\ run_counter = 0
    /\ was_connected = FALSE
    /\ idx = 0
    /\ responded = FALSE
    /\ log = <<>>
    /\ result = "none"
    /\ kind = "none"
    /\ hw = 0
    /\ tmode = "silent"
    /\ faults = 0
    /\ request = NoRequest
    /\ NoUi

\* Environment: the HID devices an enumeration can list, <<vendor_id, product_id>>;
\* 1133 and 1 stand for a vendor and a product no codec knows
Devices == {HYPERX, HP, 1133} \X (PRODUCT_IDS \cup {5867, 1})

\* The dongles the tray application is run with: one per codec, a Cloud II
\* dongle with product 0x16EB, a HyperX device with the product of Cloud III,
\* and a device of another vendor
Dongles == { <<HYPERX, 5912>>, <<HP, 5912>>, <<HP, 1726>>, <<HP, 1463>>,
             <<HYPERX, 5867>>, <<HYPERX, 1463>>, <<1133, 1>> }

\* Environment: a dongle is plugged in (what is enumerable is read by connect
\* attempts only, so it changes between them)
Plug(dev) ==
    /\ pc = "connect"
    /\ model = "none"
    /\ attached = <<>>
    /\ attached' = <<dev>>
    /\ UNCHANGED <<pc, model, ds, run_counter, was_connected, idx, responded,
                   log, result, kind, hw, tmode, faults, request, uivars>>

\* Environment: the dongle is removed
Unplug ==
    /\ pc = "connect"
    /\ model = "none"
    /\ attached # <<>>
    /\ attached' = <<>>
    /\ UNCHANGED <<pc, model, ds, run_counter, was_connected, idx, responded,
                   log, result, kind, hw, tmode, faults, request, uivars>>

\* connect_compatible_device() returns Err: main prints the error, sleeps one
\* second and tries again.  The device of the connection that ended is dropped
\* with the scope of the outer loop's body.
ConnectFail(io) ==
    /\ pc = "connect"
    /\ connect_compatible_device(attached, io).res # "Ok"
    /\ result' = connect_compatible_device(attached, io).res
    /\ kind' = "connect"
    /\ model' = "none"
    /\ ds' = DeviceState_new
    /\ run_counter' = 0
    /\ was_connected' = FALSE
    /\ idx' = 0
    /\ responded' = FALSE
    /\ log' = <<>>
    /\ hw' = 0
    /\ tmode' = "silent"
    /\ faults' = 0
    /\ UNCHANGED <<pc, attached, request, uivars>>

\* connect_compatible_device() returns Ok(device): a fresh Device State through
\* the codec's new_from_state, then init_capabilities; main sets run_counter and
\* was_connected.  The environment fixes how this headset behaves.
ConnectOk(b, t) ==
    /\ pc = "connect"
    /\ pc' = "tick"
    /\ result' = "Ok"
    /\ kind' = "connect"
    /\ hw' = b
    /\ tmode' = t
    /\ connect_compatible_device(attached, "ok").res = "Ok"
    /\ model' = connect_compatible_device(attached, "ok").codec
    /\ ds' = init_capabilities(model',
                   new_from_state(model', DeviceState_found(attached[FirstListed(attached)])))
    /\ run_counter' = 0
    /\ was_connected' = (ds'.connected = Some(TRUE))
    /\ idx' = 0
    /\ responded' = FALSE
    /\ log' = <<>>
    /\ faults' = 0
    /\ UNCHANGED <<attached, request, uivars>>

\* One pass of the run loop up to the call of a refresh: sleep(refresh_interval),
\* then enter active_refresh_state (packets built, the quirk sequence
\* execute_headset_specific_functionality returns Ok(()) for every codec,
\* responded = false) or passive_refresh_state
Tick ==
    /\ pc = "tick"
    /\ run_counter < MaxTicks
    /\ kind' = RefreshKind(run_counter)
    /\ pc' = IF kind' = "active" THEN "active" ELSE "passive_listen"
    /\ idx' = 1
    /\ responded' = FALSE
    /\ log' = <<>>
    /\ result' = "pending"
    /\ UNCHANGED <<attached, model, ds, run_counter, was_connected, hw, tmode, faults,
                   request, uivars>>

\* let is_connected = ..; if is_connected && !was_connected && can_set_equalizer:
\* the headset went from not connected to connected on an equalizer device
SyncDue(state) ==
    /\ state.connected = Some(TRUE)
    /\ ~was_connected
    /\ state.can_set_equalizer

\* let profile = load_selected_profile(); if !profile.synced { if let Some(name) ..
NeedsSync(p) == ~p.synced /\ IsSome(p.active_preset)

\* What main does with the value a refresh returned (main.rs 143-178).  The
\* probe of lines 160-163 and the preset sync of lines 166-175 need
\* can_set_equalizer, which init_capabilities leaves false for every codec;
\* when the sync is due main calls apply_and_sync before the next pass.
Returned(res, state) ==
    /\ result' = res
    /\ pc' = IF res = "Ok" /\ SyncDue(state) /\ NeedsSync(profile)
             THEN "apply_and_sync"
             ELSE AfterRefresh(res)
    /\ IF res = "Ok"
       THEN /\ was_connected' = (state.connected = Some(TRUE))
            /\ run_counter' = run_counter + 1
       ELSE UNCHANGED <<was_connected, run_counter>>

\* One iteration of the for loop of active_refresh_state: prepare_write, write,
\* sleep, wait_for_updates, merge, the break test; after the last iteration the
\* function returns
ActiveStep(write_ok) ==
    /\ pc = "active"
    /\ idx <= Len(Packets(model))
    /\ LET packet == Packets(model)[idx]
       IN  IF WriteResult(write_ok) # "Ok"
           THEN /\ log' = log \o LogWrite(model, packet, write_ok)
                /\ Returned(WriteResult(write_ok), ds)
                /\ UNCHANGED <<ds, idx, responded, faults>>
           ELSE \E outcome \in AfterWriteOutcomes(model, packet) :
                LET updates == wait_for_updates(model, outcome)
                    merged  == MergeUpdates(ds, updates)
                    resp    == Responded(responded, updates)
                IN  /\ log' = log \o LogWrite(model, packet, write_ok)
                                  \o <<LogRead(outcome)>>
                    /\ ds' = merged
                    /\ responded' = resp
                    /\ faults' = faults + FaultCost(outcome, IF tmode = "silent"
                                                             THEN "timeout" ELSE "reply")
                    /\ IF SweepGoesOn(merged) /\ idx < Len(Packets(model))
                       THEN /\ idx' = idx + 1
                            /\ UNCHANGED <<pc, result, was_connected, run_counter>>
                       ELSE /\ idx' = idx
                            /\ Returned(SweepResult(resp), merged)
    /\ UNCHANGED <<attached, model, kind, hw, tmode, request, uivars>>

\* passive_refresh_state, first half: if allow_passive_refresh() one timed read,
\* whose events are merged
PassiveListen ==
    /\ pc = "passive_listen"
    /\ IF allow_passive_refresh(model)
       THEN \E outcome \in ListenOutcomes(model) :
            /\ ds' = MergeUpdates(ds, wait_for_updates(model, outcome))
            /\ log' = log \o <<LogRead(outcome)>>
            /\ faults' = faults + FaultCost(outcome, "timeout")
       ELSE UNCHANGED <<ds, log, faults>>
    /\ pc' = "passive_battery"
    /\ UNCHANGED <<attached, model, run_counter, was_connected, idx, responded,
                   result, kind, hw, tmode, request, uivars>>

\* passive_refresh_state, second half: the battery packet, if the codec has one,
\* is written and one timed read is merged; then Ok(())
PassiveBattery(write_ok) ==
    /\ pc = "passive_battery"
    /\ LET battery == PassiveQuery(model)
       IN  IF ~IsSome(battery)
           THEN /\ write_ok
                /\ Returned("Ok", ds)
                /\ UNCHANGED <<ds, log, faults>>
           ELSE IF WriteResult(write_ok) # "Ok"
           THEN /\ log' = log \o LogWrite(model, battery[1], write_ok)
                /\ Returned(WriteResult(write_ok), ds)
                /\ UNCHANGED <<ds, faults>>
           ELSE \E outcome \in AfterWriteOutcomes(model, battery[1]) :
                LET merged == MergeUpdates(ds, wait_for_updates(model, outcome))
                IN  /\ log' = log \o LogWrite(model, battery[1], write_ok)
                                  \o <<LogRead(outcome)>>
                    /\ ds' = merged
                    /\ faults' = faults + FaultCost(outcome, IF tmode = "silent"
                                                             THEN "timeout" ELSE "reply")
                    /\ Returned("Ok", merged)
    /\ UNCHANGED <<attached, model, idx, responded, kind, hw, tmode, request, uivars>>

Next ==
    \/ \E dev \in Dongles : Plug(dev)
    \/ Unplug
    \/ \E io \in HidOutcomes : ConnectFail(io)
    \/ \E b \in PayloadBytes, t \in {"answering", "silent"} : ConnectOk(b, t)
    \/ Tick
    \/ \E w \in BOOLEAN : ActiveStep(w)
    \/ PassiveListen
    \/ \E w \in BOOLEAN : PassiveBattery(w)

Spec == Init /\ [][Next]_vars


\* The main loop thread always takes its next step; a connect attempt on an
\* enumerable dongle eventually succeeds.
FairSpec ==
    /\ Spec
    /\ WF_vars(\E b \in PayloadBytes, t \in {"answering", "silent"} : ConnectOk(b, t))
    /\ WF_vars(Tick)
    /\ WF_vars(\E w \in BOOLEAN : ActiveStep(w))
    /\ WF_vars(PassiveListen)
    /\ WF_vars(\E w \in BOOLEAN : PassiveBattery(w))

\* The weaker assumption, with every behaviour of FairSpec among its own: only
\* the connect attempt of the loop is fair, a refresh may take for ever.
ConnectFairSpec ==
    /\ Spec
    /\ WF_vars(\E b \in PayloadBytes, t \in {"answering", "silent"} : ConnectOk(b, t))

(***************************************************************************)
(* The run loop at its real cadence: one dongle stays plugged in, the      *)
(* headset answers, and the loop polls until run_counter reaches MaxPolls, *)
(* so that the active refresh that follows 29 passive ones is reached.     *)
(***************************************************************************)
\* run_counter values at which a refresh starts: 0 .. MaxPolls - 1
MaxPolls == 31

\* Environment: the payload bytes of a polled headset; 1 is "connected" for
\* Cloud III, 2 for Cloud III S
PollBytes == {0, 1, 2}

\* let refresh_interval = *matches.get_one::<u64>("refresh-interval").unwrap_or(&3)
refresh_interval == 3

\* std::thread::sleep(refresh_interval) runs once in every pass of the run
\* loop, ahead of the refresh: the seconds slept on this connection when the
\* refresh numbered counter starts
SleptBefore(counter) == (counter + 1) * refresh_interval

\* The last active refresh of this connection before the one numbered counter
LastActiveBefore(counter) ==
    CHOOSE c \in 0..(counter - 1) :
        /\ RefreshKind(c) = "active"
        /\ \A d \in (c + 1)..(counter - 1) : RefreshKind(d) # "active"

PollInit ==
    /\ pc = "connect"
    /\ attached \in { <<dev>> : dev \in { d \in Dongles : CodecFor(d) # "none" } }
    /\ model = "none"
    /\ ds = DeviceState_new
    /\ run_counter = 0
    /\ was_connected = FALSE
    /\ idx = 0
    /\ responded = FALSE
    /\ log = <<>>
    /\ result = "none"
    /\ kind = "none"
    /\ hw = 0
    /\ tmode = "silent"
    /\ faults = 0
    /\ request = NoRequest
    /\ NoUi

\* One pass of the run loop up to the call of a refresh, as Tick, for
\* run_counter up to MaxPolls
PollTick ==
    /\ pc = "tick"
    /\ run_counter < MaxPolls
    /\ kind' = RefreshKind(run_counter)
    /\ pc' = IF kind' = "active" THEN "active" ELSE "passive_listen"
    /\ idx' = 1
    /\ responded' = FALSE
    /\ log' = <<>>
    /\ result' = "pending"
    /\ UNCHANGED <<attached, model, ds, run_counter, was_connected, hw, tmode, faults,
                   request, uivars>>

PollNext ==
    \/ \E b \in PollBytes : ConnectOk(b, "answering")
    \/ PollTick
    \/ \E w \in BOOLEAN : ActiveStep(w)
    \/ PassiveListen
    \/ \E w \in BOOLEAN : PassiveBattery(w)

PollSpec == PollInit /\ [][PollNext]_vars

(***************************************************************************)
(* The run loop with a selected profile on disk: a Cloud III S dongle, the *)
(* one codec with an equalizer encoder, stays plugged in and its headset   *)
(* answers; the loop runs for ever.  Nothing of what main does depends on  *)
(* run_counter but its residue modulo 30, which is what is kept here.      *)
(***************************************************************************)
\* selected_profile.json as the tray, the CLI or the editor left it
SyncProfiles ==
    { NoProfile } \cup
    { [active_preset |-> Some(<<"Flat">>), synced |-> y] : y \in BOOLEAN }

SyncInit ==
    /\ pc = "connect"
    /\ attached = << <<HP, 1726>> >>
    /\ model = "none"
    /\ ds = DeviceState_new
    /\ run_counter = 0
    /\ was_connected = FALSE
    /\ idx = 0
    /\ responded = FALSE
    /\ log = <<>>
    /\ result = "none"
    /\ kind = "none"
    /\ hw = 0
    /\ tmode = "silent"
    /\ faults = 0
    /\ request = NoRequest
    /\ profile \in SyncProfiles
    /\ preset_files = <<>>
    /\ editor = NoEditor
    /\ sent = <<>>
    /\ previous_profile = NoProfile
    /\ popup = NoPopup

\* One pass of the run loop up to the call of a refresh, as Tick, at any
\* run_counter
SyncTick ==
    /\ pc = "tick"
    /\ kind' = RefreshKind(run_counter)
    /\ run_counter' = run_counter % ActivePeriod
    /\ pc' = IF kind' = "active" THEN "active" ELSE "passive_listen"
    /\ idx' = 1
    /\ responded' = FALSE
    /\ log' = <<>>
    /\ result' = "pending"
    /\ UNCHANGED <<attached, model, ds, was_connected, hw, tmode, faults,
                   request, uivars>>

\* apply_and_sync is entered from pc = "apply_and_sync" only
SyncNext ==
    \/ \E b \in PollBytes : ConnectOk(b, "answering")
    \/ SyncTick
    \/ \E w \in BOOLEAN : ActiveStep(w)
    \/ PassiveListen
    \/ \E w \in BOOLEAN : PassiveBattery(w)

SyncSpec == SyncInit /\ [][SyncNext]_vars

\* The main loop thread always takes its next step and every write to the
\* transport succeeds in the end
SyncFairSpec ==
    /\ SyncSpec
    /\ WF_vars(\E b \in PollBytes : ConnectOk(b, "answering"))
    /\ WF_vars(SyncTick)
    /\ WF_vars(ActiveStep(TRUE))
    /\ WF_vars(PassiveListen)
    /\ WF_vars(PassiveBattery(TRUE))

\* The resolver alone: one connect attempt on every enumeration of up to
\* MaxDevices devices.
RECURSIVE BusesOfLength(_)
BusesOfLength(n) ==
    IF n = 0 THEN {<<>>}
    ELSE { Append(bus, dev) : bus \in BusesOfLength(n - 1), dev \in Devices }

Buses == UNION { BusesOfLength(n) : n \in 0..MaxDevices }

ResolverInit ==
    /\ pc = "connect"
    /\ attached \in Buses
    /\ model = "none"
    /\ ds = DeviceState_new
    /\ run_counter = 0
    /\ was_connected = FALSE
    /\ idx = 0
    /\ responded = FALSE
    /\ log = <<>>
    /\ result = "none"
    /\ kind = "none"
    /\ hw = 0
    /\ tmode = "silent"
    /\ faults = 0
    /\ request = NoRequest
    /\ NoUi

ResolverNext ==
    \/ \E io \in HidOutcomes : ConnectFail(io)
    \/ \E b \in PayloadBytes, t \in {"answering", "silent"} : ConnectOk(b, t)

ResolverSpec == ResolverInit /\ [][ResolverNext]_vars

(***************************************************************************)
(* The command line tool (bin/hyper_headset_cli/main.rs), from its start   *)
(* to the end of its set phase; the refresh it ends with is the refresh    *)
(* engine's.  Gains are hundredths of a dB.                                *)
(***************************************************************************)
\* The set options in the order main handles them
SetOptions == <<"automatic-shutdown", "mute", "enable-side-tone", "side-tone-volume",
                "enable-voice-prompt", "surround-sound", "mute-playback">>

\* The encoder main calls for a set option given with value val (a u8; a bool
\* option is true for every val but 0)
SetPacket(m, option, val) ==
    CASE option = "automatic-shutdown"  -> set_automatic_shut_down_packet(m, val * 60)
      [] option = "mute"                -> set_mute_packet(m, val # 0)
      [] option = "enable-side-tone"    -> set_side_tone_packet(m, val # 0)
      [] option = "side-tone-volume"    -> set_side_tone_volume_packet(m, val)
      [] option = "enable-voice-prompt" -> set_voice_prompt_packet(m, val # 0)
      [] option = "surround-sound"      -> set_surround_sound_packet(m, val # 0)
      [] option = "mute-playback"       -> set_silent_mode_packet(m, val # 0)

\* Band indices and gains of the model: the first band, the last one and one
\* past it; a gain below -12 dB, -6.00 dB, 0.53 dB (whose f32 product with
\* 100.0 is below 53) and one above +12 dB
BandIndices == {0, 9, 10}
Gains == {-1300, -600, 53, 1250}

RECURSIVE ListsOver(_, _)
ListsOver(S, n) ==
    IF n = 0 THEN {<<>>}
    ELSE ListsOver(S, n - 1)
         \cup { Append(l, x) : l \in { k \in ListsOver(S, n - 1) : Len(k) = n - 1 }, x \in S }

\* Lists of (band index, gain) pairs, and the gains of a preset
BandLists == ListsOver(BandIndices \X Gains, MaxBands)
GainLists == ListsOver(Gains, MaxBands)

\* parse_eq_pair: the pairs --eq-band / --eq-profile accept
ParsedPairs == { p \in BandIndices \X Gains : p[1] <= 9 /\ p[2] >= -1200 /\ p[2] <= 1200 }

\* The pair lists main builds from --eq-band: a band given again overrides
\* the pair it already has, so no band occurs twice
EqBandLists ==
    { l \in ListsOver(ParsedPairs, MaxBands) :
          \A i, j \in 1..Len(l) : l[i][1] = l[j][1] => i = j }

\* bands.iter().enumerate().map(|(i, &db)| (i as u8, db))
Enumerate(gains) == [i \in 1..Len(gains) |-> <<i - 1, gains[i]>>]

\* variant: the loop goes on after the write that failed
WriteEachToEnd(m, packets, fail_at) ==
    Flatten([i \in 1..Len(packets) |-> LogWrite(m, packets[i], i # fail_at)])

\* for packet in packets { prepare_write(); write(&packet) -> exit or break on
\* Err; sleep }: the write numbered fail_at fails (none if fail_at = 0)
WriteEach(m, packets, fail_at) ==
    Flatten([i \in 1..(IF fail_at = 0 THEN Len(packets) ELSE fail_at) |->
                LogWrite(m, packets[i], i # fail_at)])

\* for packet in packets { prepare_write(); let _ = write(&packet); }: the
\* writes numbered in fails fail
WriteEachIgnoringErrors(m, packets, fails) ==
    Flatten([i \in 1..Len(packets) |-> LogWrite(m, packets[i], i \notin fails)])

CliRequests ==
    [opts : { S \in SUBSET { SetOptions[i] : i \in 1..Len(SetOptions) } :
                  Cardinality(S) <= MaxOptions },
     arg : 0..MaxByte,
     eq : {None} \cup { Some(l) : l \in EqBandLists },
     preset : {None}]

CliInit ==
    /\ pc = "cli_connect"
    /\ attached \in {<<>>} \cup { <<dev>> : dev \in Dongles }
    /\ request \in CliRequests
    /\ NoUi
    /\ model = "none"
    /\ ds = DeviceState_new
    /\ run_counter = 0
    /\ was_connected = FALSE
    /\ idx = 0
    /\ responded = FALSE
    /\ log = <<>>
    /\ result = "none"
    /\ kind = "none"
    /\ hw = 0
    /\ tmode = "silent"
    /\ faults = 0

\* main: connect_compatible_device(), exit(1) on Err
CliConnect(io) ==
    /\ pc = "cli_connect"
    /\ LET c == connect_compatible_device(attached, io)
       IN  /\ result' = c.res
           /\ kind' = "connect"
           /\ IF c.res = "Ok"
              THEN /\ model' = c.codec
                   /\ ds' = init_capabilities(c.codec,
                               new_from_state(c.codec,
                                   DeviceState_found(attached[FirstListed(attached)])))
                   /\ pc' = "cli_set"
                   /\ idx' = 1
              ELSE /\ pc' = "cli_exit"
                   /\ UNCHANGED <<model, ds, idx>>
    /\ UNCHANGED <<attached, run_counter, was_connected, responded, log, hw, tmode,
                   faults, request, uivars>>

\* main: one `if let Some(..) = matches.get_one(option)` block of the set
\* phase: the encoder's packet is written, or the option is reported as not
\* supported and the process exits
CliSetStep(write_ok) ==
    /\ pc = "cli_set"
    /\ LET option == SetOptions[idx]
           packet == SetPacket(model, option, request.arg)
           next   == IF idx < Len(SetOptions) THEN "cli_set" ELSE "cli_eq"
       IN  IF option \notin request.opts
           THEN /\ write_ok
                /\ pc' = next
                /\ idx' = idx + 1
                /\ UNCHANGED <<log, result, kind>>
           ELSE IF ~IsSome(packet)
           THEN /\ write_ok
                /\ result' = "NotSupported"
                /\ kind' = "set"
                /\ pc' = "cli_exit"
                /\ UNCHANGED <<log, idx>>
           ELSE /\ log' = log \o LogWrite(model, packet[1], write_ok)
                /\ kind' = "set"
                /\ IF write_ok
                   THEN /\ result' = "Ok"
                        /\ pc' = next
                        /\ idx' = idx + 1
                   ELSE /\ result' = "HidError"
                        /\ pc' = "cli_exit"
                        /\ UNCHANGED idx
    /\ UNCHANGED <<attached, model, ds, run_counter, was_connected, responded, hw,
                   tmode, faults, request, uivars>>

\* main: the pairs of --eq-profile / --eq-band are encoded and written packet
\* by packet, exit(1) on the first write error or if the encoder gives None;
\* then the refresh
CliEq(fail_at) ==
    /\ pc = "cli_eq"
    /\ IF ~IsSome(request.eq)
       THEN /\ fail_at = 0
            /\ pc' = "cli_refresh"
            /\ UNCHANGED <<log, result, kind>>
       ELSE LET packets == set_equalizer_bands_packets(model, request.eq[1])
            IN  /\ kind' = "eq"
                /\ IF ~IsSome(packets)
                   THEN /\ fail_at = 0
                        /\ result' = "NotSupported"
                        /\ pc' = "cli_exit"
                        /\ UNCHANGED log
                   ELSE /\ fail_at \in 0..Len(packets[1])
                        /\ log' = log \o WriteEach(model, packets[1], fail_at)
                        /\ result' = IF fail_at = 0 THEN "Ok" ELSE "HidError"
                        /\ pc' = IF fail_at = 0 THEN "cli_refresh" ELSE "cli_exit"
    /\ UNCHANGED <<attached, model, ds, run_counter, was_connected, idx, responded,
                   hw, tmode, faults, request, uivars>>

CliNext ==
    \/ \E io \in HidOutcomes : CliConnect(io)
    \/ \E w \in BOOLEAN : CliSetStep(w)
    \/ \E k \in 0..MaxBands : CliEq(k)

CliSpec == CliInit /\ [][CliNext]_vars

(***************************************************************************)
(* The callers of the multi-band equalizer setter, each run on its own on  *)
(* a resolved device: the setter itself, the CLI (CliEq), apply_and_sync   *)
(* of the tray application (from the test that follows its probe) and the  *)
(* two send functions of the EQ editor.                                    *)
(***************************************************************************)
\* presets::load_preset: None if there is no such preset, else its gains
Presets == {None} \cup { Some(g) : g \in GainLists \ {<<>>} }

\* Device::set_equalizer_bands_packets called with any list of pairs
EncodeBands ==
    /\ pc = "encode"
    /\ result' = set_equalizer_bands_packets(model, request.eq[1])
    /\ kind' = "eq"
    /\ pc' = "encoded"
    /\ UNCHANGED <<attached, model, ds, run_counter, was_connected, idx, responded,
                   log, hw, tmode, faults, request, uivars>>

\* apply_and_sync after probe_connected_status: nothing is written unless
\* connected is Some(true); the preset's bands are enumerated, encoded and
\* written until a write fails; the profile is saved as synced or not
ApplyAndSync(fail_at) ==
    /\ pc = "apply_and_sync"
    /\ kind' = "eq"
    /\ pc' = "applied"
    /\ IF ds.connected # Some(TRUE) \/ ~IsSome(request.preset)
       THEN /\ fail_at = 0
            /\ result' = "Unsynced"
            /\ UNCHANGED log
       ELSE LET packets == set_equalizer_bands_packets(model, Enumerate(request.preset[1]))
            IN  IF ~IsSome(packets)
                THEN /\ fail_at = 0
                     /\ result' = "Unsynced"
                     /\ UNCHANGED log
                ELSE /\ fail_at \in 0..Len(packets[1])
                     /\ log' = log \o WriteEach(model, packets[1], fail_at)
                     /\ result' = IF fail_at = 0 THEN "Synced" ELSE "Unsynced"
    /\ UNCHANGED <<attached, model, ds, run_counter, was_connected, idx, responded,
                   hw, tmode, faults, request, uivars>>

\* EqEditor::send_band_to_device: the band under the cursor
EditorSendBand(band, fails) ==
    /\ pc = "editor"
    /\ band \in 0..(Len(request.preset[1]) - 1)
    /\ kind' = "eq_band"
    /\ idx' = band
    /\ pc' = "editor_sent"
    /\ LET packets == set_equalizer_bands_packets(model,
                          << <<band, request.preset[1][band + 1]>> >>)
       IN  IF ~IsSome(packets)
           THEN /\ fails = {}
                /\ UNCHANGED log
           ELSE /\ fails \subseteq 1..Len(packets[1])
                /\ log' = log \o WriteEachIgnoringErrors(model, packets[1], fails)
    /\ UNCHANGED <<attached, model, ds, run_counter, was_connected, responded,
                   result, hw, tmode, faults, request, uivars>>

\* EqEditor::send_bands_to_device: all bands
EditorSendBands(fails) ==
    /\ pc = "editor"
    /\ kind' = "eq"
    /\ pc' = "editor_sent"
    /\ LET packets == set_equalizer_bands_packets(model, Enumerate(request.preset[1]))
       IN  IF ~IsSome(packets)
           THEN /\ fails = {}
                /\ UNCHANGED log
           ELSE /\ fails \subseteq 1..Len(packets[1])
                /\ log' = log \o WriteEachIgnoringErrors(model, packets[1], fails)
    /\ UNCHANGED <<attached, model, ds, run_counter, was_connected, idx, responded,
                   result, hw, tmode, faults, request, uivars>>

\* A resolved device, as connect left it or after one connection event, and
\* one caller about to run with its input
EqInit ==
    /\ attached \in { <<dev>> : dev \in { d \in Dongles : CodecFor(d) # "none" } }
    /\ model = CodecFor(attached[1])
    /\ \E connected \in {None, Some(TRUE), Some(FALSE)} :
          LET fresh == init_capabilities(model,
                           new_from_state(model, DeviceState_found(attached[1])))
          IN  ds = IF IsSome(connected)
                   THEN update_self_with_event(fresh, Event("WirelessConnected", connected[1]))
                   ELSE fresh
    /\ \/ /\ pc = "encode"
          /\ request \in [opts : {{}}, arg : {0},
                          eq : { Some(l) : l \in BandLists }, preset : {None}]
       \/ /\ pc = "cli_eq"
          /\ request \in [opts : {{}}, arg : {0},
                          eq : { Some(l) : l \in EqBandLists },
                          preset : {None}]
       \/ /\ pc = "apply_and_sync"
          /\ request \in [opts : {{}}, arg : {0}, eq : {None}, preset : Presets]
       \/ /\ pc = "editor"
          /\ request \in [opts : {{}}, arg : {0}, eq : {None}, preset : Presets \ {None}]
    /\ run_counter = 0
    /\ was_connected = FALSE
    /\ idx = 0
    /\ responded = FALSE
    /\ log = <<>>
    /\ result = "Ok"
    /\ kind = "connect"
    /\ hw = 0
    /\ tmode = "silent"
    /\ faults = 0
    /\ NoUi

EqNext ==
    \/ EncodeBands
    \/ \E k \in 0..MaxBands : CliEq(k)
    \/ \E k \in 0..MaxBands : ApplyAndSync(k)
    \/ \E band \in 0..(MaxBands - 1), fails \in SUBSET (1..MaxBands) :
            EditorSendBand(band, fails)
    \/ \E fails \in SUBSET (1..MaxBands) : EditorSendBands(fails)

EqSpec == EqInit /\ [][EqNext]_vars

(***************************************************************************)
(* The decoders on their own: one report of a codec is read, decoded and   *)
(* merged into a Device State.  A report is made of the bytes the decoder  *)
(* of its codec matches on (the frame and an identifier) and four payload  *)
(* bytes.                                                                  *)
(***************************************************************************)
DecoderModels == Models \cup {"CloudIICore", "CloudAlpha"}

\* Payload bytes of a report: 0, 1, 2 and a battery level
PayloadSample == {0, 1, 2, 57}

\* <<get-command ID, asynchronous-response ID>> of the features a codec
\* decodes under both
IdPairs(m) ==
    CASE m = "CloudIII" ->
            { <<III_GET_MUTE_CMD_ID, III_MUTE_RESPONSE_ID>>,
              <<III_GET_WIRELESS_STATUS_CMD_ID, III_WIRELESS_STATUS_RESPONSE_ID>>,
              <<III_GET_CHARGING_CMD_ID, III_CHARGING_RESPONSE_ID>>,
              <<III_GET_BATTERY_CMD_ID, III_BATTERY_RESPONSE_ID>> }
      [] m = "CloudIICore" ->
            { <<CORE_GET_CHARGING_CMD_ID, CORE_CHARGING_RESPONSE_ID>>,
              <<CORE_GET_MIC_CONNECTED_CMD_ID, CORE_MIC_CONNECTED_RESPONSE_ID>>,
              <<CORE_GET_BATTERY_CMD_ID, CORE_BATTERY_RESPONSE_ID>>,
              <<CORE_GET_MUTE_CMD_ID, CORE_MUTE_RESPONSE_ID>>,
              <<CORE_GET_SIDE_TONE_ON_CMD_ID, CORE_SIDE_TONE_RESPONSE_ID>>,
              <<CORE_GET_WIRELESS_STATUS_CMD_ID, CORE_WIRELESS_STATUS_RESPONSE_ID>> }
      [] m = "CloudAlpha" ->
            { <<ALPHA_GET_CHARGING_CMD_ID, ALPHA_GET_CHARGING_RESPONSE_CODE>>,
              <<ALPHA_GET_BATTERY_CMD_ID, ALPHA_GET_BATTERY_RESPONSE_CODE>>,
              <<ALPHA_GET_MUTE_CMD_ID, ALPHA_GET_MUTE_RESPONSE_CODE>>,
              <<ALPHA_GET_SIDE_TONE_ON_CMD_ID, ALPHA_GET_SIDE_TONE_ON_RESPONSE_CODE>>,
              <<ALPHA_GET_WIRELESS_STATUS_CMD_ID, ALPHA_GET_WIRELESS_STATUS_RESPONSE_CODE>> }
      [] OTHER -> {}

\* The identifiers, each with the first byte of its frame, under which a
\* codec decodes a battery level
BatteryTags(m) ==
    CASE m = "CloudII"     -> { <<11, II_GET_BATTERY_CMD_ID>> }
      [] m = "CloudIIDTS"  -> { <<6, DTS_GET_BATTERY_CMD_ID>> }
      [] m = "CloudIIIS"   -> { <<IIIS_RESPONSE_ID, IIIS_BATTERY_COMMAND_ID>>,
                                <<IIIS_NOTIFICATION_ID, 1>> }
      [] m = "CloudIII"    -> { <<102, III_GET_BATTERY_CMD_ID>>,
                                <<102, III_BATTERY_RESPONSE_ID>> }
      [] m = "CloudIICore" -> { <<102, CORE_GET_BATTERY_CMD_ID>>,
                                <<102, CORE_BATTERY_RESPONSE_ID>> }
      [] m = "CloudAlpha"  -> { <<33, ALPHA_GET_BATTERY_CMD_ID>>,
                                <<33, ALPHA_GET_BATTERY_RESPONSE_CODE>> }

\* The index of the byte that holds the battery level of such a report
BatteryLevelAt(m, first) ==
    CASE m \in {"CloudII", "CloudIIDTS"}   -> 7
      [] m = "CloudIIIS"                    -> IF first = IIIS_NOTIFICATION_ID THEN 5 ELSE 6
      [] m \in {"CloudIII", "CloudIICore"} -> 4
      [] m = "CloudAlpha"                   -> 3

\* The index of the byte that holds the identifier
IdAt(m, first) ==
    CASE m \in {"CloudII", "CloudIIDTS"}   -> 3
      [] m = "CloudIIIS"                    -> IF first = IIIS_NOTIFICATION_ID THEN 4 ELSE 5
      [] m \in {"CloudIII", "CloudIICore"} -> 1
      [] m = "CloudAlpha"                   -> 2

\* The report of 8 bytes with the frame of the codec, the identifier and the
\* payload p in the bytes after it
DecoderFrame(m, first, id, p) ==
    CASE m = "CloudII"     -> <<11, 0, 187, id, p[1], p[2], p[3], p[4]>>
      [] m = "CloudIIDTS"  -> <<6, 255, 187, id, p[1], p[2], p[3], p[4]>>
      [] m = "CloudIIIS"   -> IF first = IIIS_NOTIFICATION_ID
                              THEN <<first, 0, 0, 0, id, p[1], p[2], p[3]>>
                              ELSE <<first, 2, 3, 1, 0, id, p[1], p[2]>>
      [] m \in {"CloudIII", "CloudIICore"} -> <<102, id, p[1], p[2], p[3], p[4], 0, 0>>
      [] m = "CloudAlpha"  -> <<33, 187, id, p[1], p[2], p[3], p[4], 0>>

\* The reports decoded: the battery reports and the reports of both IDs of a
\* feature with every sample payload; for Cloud II Core the side-tone volume
\* reports with every byte value
DecoderReports(m) ==
    { DecoderFrame(m, t[1], t[2], p) :
          t \in BatteryTags(m) \cup { <<102, pair[i]>> : pair \in IdPairs(m), i \in {1, 2} },
          p \in PayloadSample \X PayloadSample \X PayloadSample \X PayloadSample }
    \cup (IF m = "CloudIICore"
          THEN { DecoderFrame(m, 102, id, <<b, 0, 0, 0>>) :
                     id \in {CORE_GET_SIDE_TONE_VOLUME_CMD_ID,
                             CORE_SET_SIDE_TONE_VOLUME_CMD_ID},
                     b \in 0..255 }
          ELSE {})

\* A Device State some of whose features are known
DeviceState_known ==
    [DeviceState_new EXCEPT !.battery_level = Some(1), !.connected = Some(TRUE),
                            !.muted = Some(FALSE)]

DecodeInit ==
    /\ pc = "decode"
    /\ model \in DecoderModels
    /\ ds \in {DeviceState_new, DeviceState_known}
    /\ \E report \in DecoderReports(model) :
          log = <<LogRead(Outcome("report", FALSE, report))>>
    /\ attached = <<>>
    /\ run_counter = 0
    /\ was_connected = FALSE
    /\ idx = 0
    /\ responded = FALSE
    /\ result = None
    /\ kind = "decode"
    /\ hw = 0
    /\ tmode = "answering"
    /\ faults = 0
    /\ request = NoRequest
    /\ NoUi

\* if let Some(events) = self.wait_for_updates(..) { merge every event }: the
\* report is decoded and its events are merged
Decode ==
    /\ pc = "decode"
    /\ result' = wait_for_updates(model, log[1].out)
    /\ ds' = MergeUpdates(ds, result')
    /\ pc' = "decoded"
    /\ UNCHANGED <<attached, model, run_counter, was_connected, idx, responded, log,
                   kind, hw, tmode, faults, request, uivars>>

DecodeNext == Decode

DecodeSpec == DecodeInit /\ [][DecodeNext]_vars

(***************************************************************************)
(* The EQ popup (eq/popup.rs, eq/popup_gtk4.rs): the GTK thread polls its  *)
(* command channel and owns the window and the visible flag.               *)
(***************************************************************************)
\* Commands waiting in the channel of the popup thread
MaxQueue == 2

\* struct PopupState, the snapshot a window is built from
PopupStates ==
    { [active_preset |-> Some(<<"Flat">>), synced |-> y, is_connected |-> TRUE] :
          y \in BOOLEAN }

\* enum PopupCommand; Show and UpdateState carry a snapshot, Hide carries none
PopupCommands ==
    { [cmd |-> c, state |-> Some(st)] : c \in {"Show", "UpdateState"}, st \in PopupStates }
    \cup { [cmd |-> "Hide", state |-> None] }

\* build_popup_window(&state, ..) and w.present(): a window on the screen
PopupWindow(snapshot) == [state |-> snapshot, shown |-> TRUE]

\* if let Some(ref w) = *window.borrow() { w.set_visible(false); }
HideWindow(window) ==
    IF IsSome(window) THEN Some([window[1] EXCEPT !.shown = FALSE]) ELSE window

\* variant: Show presents a new window whatever the visible flag says
popup_command_no_toggle(p, c) ==
    CASE c.cmd = "Show" ->
            [p EXCEPT !.window = Some(PopupWindow(c.state[1])), !.visible = TRUE]
      [] c.cmd = "Hide" ->
            [p EXCEPT !.window = HideWindow(p.window), !.visible = FALSE]
      [] c.cmd = "UpdateState" ->
            IF p.visible
            THEN [p EXCEPT !.window = Some(PopupWindow(c.state[1]))]
            ELSE p

\* match cmd { Show => .., Hide => .., UpdateState => .. }: the old window is
\* destroyed where a new one takes its place
popup_command(p, c) ==
    CASE c.cmd = "Show" ->
            IF p.visible
            THEN [p EXCEPT !.window = HideWindow(p.window), !.visible = FALSE]
            ELSE [p EXCEPT !.window = Some(PopupWindow(c.state[1])), !.visible = TRUE]
      [] c.cmd = "Hide" ->
            [p EXCEPT !.window = HideWindow(p.window), !.visible = FALSE]
      [] c.cmd = "UpdateState" ->
            IF p.visible
            THEN [p EXCEPT !.window = Some(PopupWindow(c.state[1]))]
            ELSE p

\* while let Ok(cmd) = popup_rx.try_recv() { match cmd { .. } }
RECURSIVE popup_drain(_)
popup_drain(p) ==
    IF p.rx = <<>> THEN p
    ELSE popup_drain(popup_command([p EXCEPT !.rx = Tail(p.rx)], Head(p.rx)))

PopupInit ==
    /\ pc = "popup"
    /\ attached = <<>>
    /\ model = "none"
    /\ ds = DeviceState_new
    /\ run_counter = 0
    /\ was_connected = FALSE
    /\ idx = 0
    /\ responded = FALSE
    /\ log = <<>>
    /\ result = "none"
    /\ kind = "none"
    /\ hw = 0
    /\ tmode = "silent"
    /\ faults = 0
    /\ request = NoRequest
    /\ NoUi

\* Gtk4PopupController::send, from the tray thread or the main loop
PopupSend(c) ==
    /\ pc = "popup"
    /\ Len(popup.rx) < MaxQueue
    /\ popup' = [popup EXCEPT !.rx = Append(popup.rx, c)]
    /\ UNCHANGED <<pc, attached, model, ds, run_counter, was_connected, idx, responded,
                   log, result, kind, hw, tmode, faults, request, profile,
                   preset_files, editor, sent, previous_profile>>

\* The timeout source of the GTK main loop: the channel is drained
PopupPoll ==
    /\ pc = "popup"
    /\ popup.rx # <<>>
    /\ popup' = popup_drain(popup)
    /\ UNCHANGED <<pc, attached, model, ds, run_counter, was_connected, idx, responded,
                   log, result, kind, hw, tmode, faults, request, profile,
                   preset_files, editor, sent, previous_profile>>

\* focus_ctl.connect_leave: the window on the screen loses the focus
PopupFocusLeave ==
    /\ pc = "popup"
    /\ IsSome(popup.window)
    /\ popup.window[1].shown
    /\ popup' = [popup EXCEPT !.window = HideWindow(popup.window), !.visible = FALSE]
    /\ UNCHANGED <<pc, attached, model, ds, run_counter, was_connected, idx, responded,
                   log, result, kind, hw, tmode, faults, request, profile,
                   preset_files, editor, sent, previous_profile>>

PopupNext ==
    \/ \E c \in PopupCommands : PopupSend(c)
    \/ PopupPoll
    \/ PopupFocusLeave

PopupSpec == PopupInit /\ [][PopupNext]_vars

(***************************************************************************)
(* The EQ editor of hyper_headset_cli --eq (eq/editor.rs) with the preset  *)
(* files it reads and writes (eq/presets.rs).  Gains are hundredths of a   *)
(* dB; a name is the sequence of its characters; the first NUM_BANDS bands *)
(* of the 10 of the code are kept.                                         *)
(***************************************************************************)
\* Keys read by event_loop in one run of the editor
MaxKeys == 5

\* pub const NUM_BANDS: usize = 10, of which the model keeps MaxBands
NUM_BANDS == MaxBands

\* pub const DB_MIN: f32 = -12.0
DB_MIN == -1200

\* pub const DB_MAX: f32 = 12.0
DB_MAX == 1200

\* the key steps of handle_normal_key: 1.0 and 3.0
DB_STEP == 100
DB_PAGE == 300

\* f32::min, f32::max
F32Min(a, b) == IF a < b THEN a ELSE b
F32Max(a, b) == IF a > b THEN a ELSE b

\* The name of the editor's own preset, and the names of the builtin ones
TUI == <<"T", "U", "I">>
Flat == <<"F", "l", "a", "t">>
BassBoost == <<"B", "a", "s", "s", " ", "B", "o", "o", "s", "t">>
TrebleBoost == <<"T", "r", "e", "b", "l", "e", " ", "B", "o", "o", "s", "t">>
VShape == <<"V", "-", "S", "h", "a", "p", "e">>
Vocal == <<"V", "o", "c", "a", "l">>

\* a selected preset that has neither a file nor a builtin
Gone == <<"G", "o", "n", "e">>

\* struct EqPreset { name, bands }, with the bands the model keeps
EqPreset(name, bands) == [name |-> name, bands |-> SubSeq(bands, 1, NUM_BANDS)]

\* [0.0; NUM_BANDS]
FlatBands == [i \in 1..NUM_BANDS |-> 0]

\* fn builtin_presets() -> Vec<EqPreset>
builtin_presets ==
    << EqPreset(Flat, <<0, 0, 0, 0, 0, 0, 0, 0, 0, 0>>),
       EqPreset(BassBoost, <<600, 500, 300, 100, 0, 0, 0, 0, 0, 0>>),
       EqPreset(TrebleBoost, <<0, 0, 0, 0, 0, 100, 200, 400, 500, 600>>),
       EqPreset(VShape, <<500, 400, 200, 0, -200, -200, 0, 200, 400, 500>>),
       EqPreset(Vocal, <<-200, -100, 0, 200, 400, 400, 300, 100, 0, -100>>) >>

\* iter().position(|p| p.name == name), counted from 1; 0 if there is none
Position(presets, name) ==
    IF \E i \in 1..Len(presets) : presets[i].name = name
    THEN CHOOSE i \in 1..Len(presets) :
            /\ presets[i].name = name
            /\ \A j \in 1..(i - 1) : presets[j].name # name
    ELSE 0

is_builtin(name) == Position(builtin_presets, name) # 0

\* The bytes of the characters preset names are made of
ByteOf(c) ==
    CASE c = " " -> 32
      [] c = ")" -> 41
      [] c = "-" -> 45
      [] c = "0" -> 48
      [] c = "B" -> 66
      [] c = "F" -> 70
      [] c = "G" -> 71
      [] c = "I" -> 73
      [] c = "S" -> 83
      [] c = "T" -> 84
      [] c = "U" -> 85
      [] c = "V" -> 86
      [] c = "a" -> 97
      [] c = "b" -> 98
      [] c = "c" -> 99
      [] c = "d" -> 100
      [] c = "e" -> 101
      [] c = "h" -> 104
      [] c = "l" -> 108
      [] c = "m" -> 109
      [] c = "n" -> 110
      [] c = "o" -> 111
      [] c = "p" -> 112
      [] c = "q" -> 113
      [] c = "r" -> 114
      [] c = "s" -> 115
      [] c = "t" -> 116

\* a.name.cmp(&b.name) = Less: the byte-wise order of strings
RECURSIVE NameLess(_, _)
NameLess(a, b) ==
    IF b = <<>> THEN FALSE
    ELSE IF a = <<>> THEN TRUE
    ELSE IF Head(a) = Head(b) THEN NameLess(Tail(a), Tail(b))
    ELSE ByteOf(Head(a)) < ByteOf(Head(b))

\* load_user_presets: the preset files, sorted by name (preset_files is kept
\* in that order)
load_user_presets(files) == files

\* load_preset: the user's file first, then the builtin
load_preset(files, name) ==
    IF Position(files, name) # 0 THEN Some(files[Position(files, name)])
    ELSE IF is_builtin(name) THEN Some(builtin_presets[Position(builtin_presets, name)])
    ELSE None

\* save_preset: <name>.json is written, a new file or over the old one
save_preset(files, preset) ==
    IF Position(files, preset.name) # 0
    THEN [files EXCEPT ![Position(files, preset.name)] = preset]
    ELSE LET k == Cardinality({ i \in 1..Len(files) : NameLess(files[i].name, preset.name) })
         IN  SubSeq(files, 1, k) \o <<preset>> \o SubSeq(files, k + 1, Len(files))

\* delete_preset: <name>.json is removed if it exists
delete_preset(files, name) == SelectSeq(files, LAMBDA p : p.name # name)

\* all_presets: the builtins, each overridden by the user preset of its name,
\* then the other user presets
all_presets(files) ==
    [i \in 1..Len(builtin_presets) |->
        IF Position(files, builtin_presets[i].name) # 0
        THEN files[Position(files, builtin_presets[i].name)]
        ELSE builtin_presets[i]]
    \o SelectSeq(files, LAMBDA p : ~is_builtin(p.name))

\* EditorResult::Saved / EditorResult::Cancelled
EditorResult(k, name, bands) == [kind |-> k, name |-> name, bands |-> bands]

\* EqEditor::new: the editor a selected profile and the preset files give
EqEditor_new(selected, files) ==
    LET tui_preset == load_preset(files, TUI)
        tui_exists == IsSome(tui_preset)
        tui_bands  == IF tui_exists THEN tui_preset[1].bands ELSE FlatBands
        found      == IF IsSome(selected) THEN load_preset(files, selected[1]) ELSE None
        conflict   == /\ IsSome(selected)
                      /\ selected[1] # TUI
                      /\ IsSome(found)
                      /\ tui_exists
                      /\ found[1].bands # tui_bands
        named      == IsSome(selected) /\ selected[1] # TUI
        bands      == IF named /\ IsSome(found) /\ ~tui_exists THEN found[1].bands
                      ELSE tui_bands
        active     == IF named /\ (conflict \/ ~IsSome(found)) THEN Some(TUI)
                      ELSE selected
        original   == IF named /\ (conflict \/ ~IsSome(found)) THEN TUI
                      ELSE IF IsSome(selected) THEN selected[1] ELSE TUI
    IN  [ bands |-> bands,
          original_bands |-> bands,
          original_preset |-> original,
          reference_bands |-> bands,
          cursor |-> 0,
          modified |-> FALSE,
          presets |-> all_presets(files),
          active_preset |-> active,
          mode |-> IF conflict THEN "StartupConflict" ELSE "Normal",
          preset_list_state |-> None,
          save_input |-> <<>>,
          confirm_quit_selection |-> "SaveTui",
          exit_after_preset_save |-> FALSE,
          conflict_preset_name |-> IF conflict THEN selected ELSE None,
          conflict_preset_bands |-> IF conflict THEN Some(found[1].bands) ELSE None,
          startup_conflict_selection |-> "OverwriteTui",
          result |-> None,
          keys |-> 0 ]

\* if self.save_input.len() < 30
SAVE_INPUT_MAX == 30

\* What a key handler leaves: the editor, the preset files, and what it sent
\* to the device ("none", "band": the band under the cursor, "all": every
\* band, "original": every band of original_bands)
Handled(ed, files, send) == [ed |-> ed, files |-> files, send |-> send]

\* The characters of KeyCode::Char the environment types
Chars == {"0", "r", ")", "p", "s", "d", "q", "m"}

\* self.active_preset.as_ref().filter(|name| !is_builtin(name)).cloned().unwrap_or_default()
SaveInputPrefill(ed) ==
    IF IsSome(ed.active_preset) /\ ~is_builtin(ed.active_preset[1])
    THEN ed.active_preset[1]
    ELSE <<>>

\* EqEditor::handle_startup_conflict_key
handle_startup_conflict_key(ed, key, files) ==
    IF key \in {"Left", "Right", "Tab", "BackTab"}
    THEN Handled([ed EXCEPT !.startup_conflict_selection =
                       IF @ = "OverwriteTui" THEN "LoadTui" ELSE "OverwriteTui"],
                 files, "none")
    ELSE IF key = "Enter"
    THEN LET chosen ==
                 IF ed.startup_conflict_selection = "OverwriteTui"
                    /\ IsSome(ed.conflict_preset_bands)
                 THEN [ed EXCEPT !.bands = ed.conflict_preset_bands[1],
                                 !.original_bands = ed.conflict_preset_bands[1],
                                 !.reference_bands = ed.conflict_preset_bands[1],
                                 !.active_preset = ed.conflict_preset_name,
                                 !.original_preset =
                                     IF IsSome(ed.conflict_preset_name)
                                     THEN ed.conflict_preset_name[1] ELSE TUI]
                 ELSE ed
         IN  Handled([chosen EXCEPT !.conflict_preset_name = None,
                                    !.conflict_preset_bands = None,
                                    !.mode = "Normal"],
                     files, "all")
    ELSE Handled(ed, files, "none")

\* variant: a key step of Up, Down, PageUp, PageDown that does not saturate
StepUnclamped(gain, by) == gain + by

\* (self.bands[self.cursor] + 1.0).min(DB_MAX), (.. - 1.0).max(DB_MIN), and
\* the same with 3.0
Step(gain, by) == IF by > 0 THEN F32Min(gain + by, DB_MAX) ELSE F32Max(gain + by, DB_MIN)

\* variant: a band key that leaves the modified flag alone
SetBandUnmarked(ed, gain) == [ed EXCEPT !.bands[ed.cursor + 1] = gain]

\* self.bands[self.cursor] = ..; self.modified = true
SetBand(ed, gain) == [ed EXCEPT !.bands[ed.cursor + 1] = gain, !.modified = TRUE]

\* EqEditor::handle_normal_key
handle_normal_key(ed, key, files) ==
    CASE key = "Left" ->
            Handled([ed EXCEPT !.cursor = (@ + NUM_BANDS - 1) % NUM_BANDS], files, "none")
      [] key = "Right" ->
            Handled([ed EXCEPT !.cursor = (@ + 1) % NUM_BANDS], files, "none")
      [] key = "Up" ->
            Handled(SetBand(ed, Step(ed.bands[ed.cursor + 1], DB_STEP)), files, "band")
      [] key = "Down" ->
            Handled(SetBand(ed, Step(ed.bands[ed.cursor + 1], -DB_STEP)), files, "band")
      [] key = "PageUp" ->
            Handled(SetBand(ed, Step(ed.bands[ed.cursor + 1], DB_PAGE)), files, "band")
      [] key = "PageDown" ->
            Handled(SetBand(ed, Step(ed.bands[ed.cursor + 1], -DB_PAGE)), files, "band")
      [] key = "0" ->
            Handled(SetBand(ed, 0), files, "band")
      [] key = "r" ->
            Handled([ed EXCEPT !.bands = ed.reference_bands,
                               !.modified = (ed.reference_bands # ed.original_bands)],
                    files, "all")
      [] key = ")" ->
            Handled([ed EXCEPT !.bands = FlatBands,
                               !.modified = TRUE,
                               !.active_preset = Some(Flat),
                               !.reference_bands = FlatBands],
                    files, "all")
      [] key = "p" ->
            Handled([ed EXCEPT !.mode = "PresetSelect",
                               !.preset_list_state =
                                   IF IsSome(ed.active_preset)
                                      /\ Position(ed.presets, ed.active_preset[1]) # 0
                                   THEN Some(Position(ed.presets, ed.active_preset[1]) - 1)
                                   ELSE Some(0)],
                    files, "none")
      [] key = "s" ->
            Handled([ed EXCEPT !.mode = "PresetSave",
                               !.save_input = SaveInputPrefill(ed)],
                    files, "none")
      [] key = "d" ->
            IF load_user_presets(files) # <<>>
            THEN Handled([ed EXCEPT !.mode = "PresetDelete",
                                    !.preset_list_state = Some(0)],
                         files, "none")
            ELSE Handled(ed, files, "none")
      [] key = "Enter" ->
            Handled([ed EXCEPT !.result =
                        Some(EditorResult("Saved",
                                          IF IsSome(ed.active_preset)
                                          THEN ed.active_preset[1] ELSE TUI,
                                          ed.bands))],
                    files, "none")
      [] key \in {"Esc", "q"} ->
            IF ed.modified
            THEN Handled([ed EXCEPT !.confirm_quit_selection = "SaveTui",
                                    !.mode = "ConfirmQuit"],
                         files, "none")
            ELSE Handled([ed EXCEPT !.result =
                             Some(EditorResult("Cancelled", ed.original_preset,
                                               ed.original_bands))],
                         files, "none")
      [] OTHER -> Handled(ed, files, "none")

\* self.preset_list_state.selected().unwrap_or(0)
SelectedOr0(ed) == IF IsSome(ed.preset_list_state) THEN ed.preset_list_state[1] ELSE 0

\* Up and Down in a list of len entries
ListUp(ed, len) ==
    [ed EXCEPT !.preset_list_state =
        Some(IF SelectedOr0(ed) = 0 THEN len - 1 ELSE SelectedOr0(ed) - 1)]
ListDown(ed, len) ==
    [ed EXCEPT !.preset_list_state = Some((SelectedOr0(ed) + 1) % len)]

\* EqEditor::handle_preset_select_key
handle_preset_select_key(ed, key, files) ==
    LET len == Len(ed.presets)
    IN  IF len = 0 THEN Handled([ed EXCEPT !.mode = "Normal"], files, "none")
        ELSE CASE key = "Up" -> Handled(ListUp(ed, len), files, "none")
               [] key = "Down" -> Handled(ListDown(ed, len), files, "none")
               [] key = "Enter" ->
                     IF IsSome(ed.preset_list_state) /\ ed.preset_list_state[1] < len
                     THEN LET preset == ed.presets[ed.preset_list_state[1] + 1]
                          IN  Handled([ed EXCEPT !.bands = preset.bands,
                                                 !.reference_bands = preset.bands,
                                                 !.active_preset = Some(preset.name),
                                                 !.modified = TRUE,
                                                 !.mode = "Normal"],
                                      files, "all")
                     ELSE Handled([ed EXCEPT !.mode = "Normal"], files, "none")
               [] key = "Esc" -> Handled([ed EXCEPT !.mode = "Normal"], files, "none")
               [] OTHER -> Handled(ed, files, "none")

\* EqEditor::handle_preset_save_key
handle_preset_save_key(ed, key, files) ==
    CASE key \in Chars ->
            IF Len(ed.save_input) < SAVE_INPUT_MAX
            THEN Handled([ed EXCEPT !.save_input = Append(@, key)], files, "none")
            ELSE Handled(ed, files, "none")
      [] key = "Backspace" ->
            IF ed.save_input = <<>> THEN Handled(ed, files, "none")
            ELSE Handled([ed EXCEPT !.save_input = SubSeq(@, 1, Len(@) - 1)],
                         files, "none")
      [] key = "Enter" ->
            IF ed.save_input # <<>>
            THEN LET saved == save_preset(files, EqPreset(ed.save_input, ed.bands))
                     named == [ed EXCEPT !.active_preset = Some(ed.save_input),
                                         !.presets = all_presets(saved)]
                 IN  IF ed.exit_after_preset_save
                     THEN Handled([named EXCEPT !.result =
                                      Some(EditorResult("Saved", ed.save_input, ed.bands))],
                                  saved, "none")
                     ELSE Handled([named EXCEPT !.save_input = <<>>, !.mode = "Normal"],
                                  saved, "none")
            ELSE Handled([ed EXCEPT !.mode = "Normal"], files, "none")
      [] key = "Esc" ->
            Handled([ed EXCEPT !.save_input = <<>>,
                               !.exit_after_preset_save = FALSE,
                               !.mode = "Normal"],
                    files, "none")
      [] OTHER -> Handled(ed, files, "none")

\* EqEditor::handle_preset_delete_key
handle_preset_delete_key(ed, key, files) ==
    LET user_presets == load_user_presets(files)
        len == Len(user_presets)
    IN  IF len = 0 THEN Handled([ed EXCEPT !.mode = "Normal"], files, "none")
        ELSE CASE key = "Up" -> Handled(ListUp(ed, len), files, "none")
               [] key = "Down" -> Handled(ListDown(ed, len), files, "none")
               [] key = "Enter" ->
                     IF IsSome(ed.preset_list_state) /\ ed.preset_list_state[1] < len
                     THEN LET name == user_presets[ed.preset_list_state[1] + 1].name
                              left == delete_preset(files, name)
                          IN  Handled([ed EXCEPT !.active_preset =
                                                     IF @ = Some(name) THEN None ELSE @,
                                                 !.presets = all_presets(left),
                                                 !.preset_list_state = Some(0),
                                                 !.mode = "Normal"],
                                      left, "none")
                     ELSE Handled([ed EXCEPT !.preset_list_state = Some(0),
                                             !.mode = "Normal"],
                                  files, "none")
               [] key = "Esc" -> Handled([ed EXCEPT !.mode = "Normal"], files, "none")
               [] OTHER -> Handled(ed, files, "none")

\* EqEditor::handle_confirm_quit_key
handle_confirm_quit_key(ed, key, files) ==
    CASE key \in {"Right", "Tab"} ->
            Handled([ed EXCEPT !.confirm_quit_selection =
                        CASE @ = "SaveTui" -> "SaveAs"
                          [] @ = "SaveAs" -> "Undo"
                          [] @ = "Undo" -> "SaveTui"],
                    files, "none")
      [] key \in {"Left", "BackTab"} ->
            Handled([ed EXCEPT !.confirm_quit_selection =
                        CASE @ = "SaveTui" -> "Undo"
                          [] @ = "SaveAs" -> "SaveTui"
                          [] @ = "Undo" -> "SaveAs"],
                    files, "none")
      [] key = "Enter" ->
           (CASE ed.confirm_quit_selection = "SaveTui" ->
                    Handled([ed EXCEPT !.result =
                                Some(EditorResult("Saved", TUI, ed.bands))],
                            files, "none")
              [] ed.confirm_quit_selection = "SaveAs" ->
                    Handled([ed EXCEPT !.exit_after_preset_save = TRUE,
                                       !.mode = "PresetSave",
                                       !.save_input = SaveInputPrefill(ed)],
                            files, "none")
              [] ed.confirm_quit_selection = "Undo" ->
                    Handled([ed EXCEPT !.result =
                                Some(EditorResult("Cancelled", ed.original_preset,
                                                  ed.original_bands))],
                            files, "original"))
      [] key = "Esc" -> Handled([ed EXCEPT !.mode = "Normal"], files, "none")
      [] OTHER -> Handled(ed, files, "none")

\* EqEditor::send_band_to_device: the write errors are dropped (let _ =), and
\* nothing is written if the codec has no equalizer encoder
send_band_to_device(s, m, bands, band) ==
    IF IsSome(set_equalizer_bands_packets(m, << <<band, bands[band + 1]>> >>))
    THEN [s EXCEPT ![band + 1] = Some(bands[band + 1])]
    ELSE s

\* EqEditor::send_bands_to_device
send_bands_to_device(s, m, bands) ==
    IF IsSome(set_equalizer_bands_packets(m, Enumerate(bands)))
    THEN [i \in 1..Len(bands) |-> Some(bands[i])]
    ELSE s

\* What the device was last handed per band once a key handler has run
SentAfter(s, m, out) ==
    CASE out.send = "band" -> send_band_to_device(s, m, out.ed.bands, out.ed.cursor)
      [] out.send = "all" -> send_bands_to_device(s, m, out.ed.bands)
      [] out.send = "original" -> send_bands_to_device(s, m, out.ed.original_bands)
      [] OTHER -> s

\* eq_presets/ when hyper_headset_cli --eq starts: a TUI.json near the limits
\* with a preset of the user's, and a TUI.json with the bands of Bass Boost
NearLimitFiles ==
    << EqPreset(TUI, <<1150, -1100, 0, 0, 0, 0, 0, 0, 0, 0>>),
       EqPreset(<<"m">>, <<-1200, 300, 0, 0, 0, 0, 0, 0, 0, 0>>) >>
BassBoostFiles ==
    << EqPreset(TUI, <<600, 500, 300, 100, 0, 0, 0, 0, 0, 0>>) >>

\* selected_profile.json and eq_presets/ when hyper_headset_cli --eq starts,
\* one pair for each case of EqEditor::new
EditorStarts ==
    { <<NoProfile, NearLimitFiles>>,
      <<[active_preset |-> Some(TUI), synced |-> TRUE], NearLimitFiles>>,
      <<[active_preset |-> Some(BassBoost), synced |-> TRUE], NearLimitFiles>>,
      <<[active_preset |-> Some(BassBoost), synced |-> TRUE], BassBoostFiles>>,
      <<[active_preset |-> Some(BassBoost), synced |-> FALSE], <<>> >>,
      <<[active_preset |-> Some(Gone), synced |-> FALSE], <<>> >> }

\* hyper_headset_cli --eq on a connected Cloud III S, the codec with an
\* equalizer encoder, before the editor is made
EditorInit ==
    /\ pc = "cli_eq_editor"
    /\ attached = << <<HP, 1726>> >>
    /\ model = CodecFor(attached[1])
    /\ ds = init_capabilities(model, new_from_state(model, DeviceState_found(attached[1])))
    /\ run_counter = 0
    /\ was_connected = FALSE
    /\ idx = 0
    /\ responded = FALSE
    /\ log = <<>>
    /\ result = "Ok"
    /\ kind = "connect"
    /\ hw = 0
    /\ tmode = "silent"
    /\ faults = 0
    /\ request = NoRequest
    /\ \E start \in EditorStarts : profile = start[1] /\ preset_files = start[2]
    /\ editor = NoEditor
    /\ sent = [i \in 1..NUM_BANDS |-> None]
    /\ previous_profile = NoProfile
    /\ popup = NoPopup

\* let previous_profile = load_selected_profile(); EqEditor::new(); then
\* event_loop up to its first read of a key: the startup send
EditorStart ==
    /\ pc = "cli_eq_editor"
    /\ previous_profile' = profile
    /\ editor' = EqEditor_new(profile.active_preset, preset_files)
    /\ sent' = IF editor'.mode # "StartupConflict"
               THEN send_bands_to_device(sent, model, editor'.bands)
               ELSE sent
    /\ pc' = "event_loop"
    /\ UNCHANGED <<attached, model, ds, run_counter, was_connected, idx, responded,
                   log, result, kind, hw, tmode, faults, request, profile,
                   preset_files, popup>>

\* What a pass of event_loop leaves once its key is handled
KeyHandled(out) ==
    /\ editor.keys < MaxKeys
    /\ editor' = [out.ed EXCEPT !.keys = @ + 1]
    /\ preset_files' = out.files
    /\ sent' = SentAfter(sent, model, out)
    /\ pc' = IF IsSome(out.ed.result) THEN "editor_returned" ELSE "event_loop"
    /\ UNCHANGED <<attached, model, ds, run_counter, was_connected, idx, responded,
                   log, result, kind, hw, tmode, faults, request, profile,
                   previous_profile, popup>>

\* Ctrl+C, in any mode: Saved { name: "TUI", bands: self.bands }
CtrlC ==
    /\ pc = "event_loop"
    /\ editor' = [editor EXCEPT !.result = Some(EditorResult("Saved", TUI, editor.bands))]
    /\ pc' = "editor_returned"
    /\ UNCHANGED <<attached, model, ds, run_counter, was_connected, idx, responded,
                   log, result, kind, hw, tmode, faults, request, profile,
                   preset_files, sent, previous_profile, popup>>

\* event_loop in mode StartupConflict: a key is read and handled
HandleStartupConflictKey(key) ==
    /\ pc = "event_loop"
    /\ editor.mode = "StartupConflict"
    /\ KeyHandled(handle_startup_conflict_key(editor, key, preset_files))

\* event_loop in mode Normal: a key is read and handled
HandleNormalKey(key) ==
    /\ pc = "event_loop"
    /\ editor.mode = "Normal"
    /\ KeyHandled(handle_normal_key(editor, key, preset_files))

\* event_loop in mode PresetSelect: a key is read and handled
HandlePresetSelectKey(key) ==
    /\ pc = "event_loop"
    /\ editor.mode = "PresetSelect"
    /\ KeyHandled(handle_preset_select_key(editor, key, preset_files))

\* event_loop in mode PresetSave: a key is read and handled
HandlePresetSaveKey(key) ==
    /\ pc = "event_loop"
    /\ editor.mode = "PresetSave"
    /\ KeyHandled(handle_preset_save_key(editor, key, preset_files))

\* event_loop in mode PresetDelete: a key is read and handled
HandlePresetDeleteKey(key) ==
    /\ pc = "event_loop"
    /\ editor.mode = "PresetDelete"
    /\ KeyHandled(handle_preset_delete_key(editor, key, preset_files))

\* event_loop in mode ConfirmQuit: a key is read and handled
HandleConfirmQuitKey(key) ==
    /\ pc = "event_loop"
    /\ editor.mode = "ConfirmQuit"
    /\ KeyHandled(handle_confirm_quit_key(editor, key, preset_files))

\* hyper_headset_cli after editor.run returned: Saved writes the preset, the
\* TUI copy and the profile with synced = true; Cancelled writes the profile
\* with the name returned and the synced value read before the editor
CliEditorReturned ==
    /\ pc = "editor_returned"
    /\ pc' = "exit"
    /\ LET res == editor.result[1]
       IN  IF res.kind = "Saved"
           THEN /\ preset_files' =
                       LET named == save_preset(preset_files, EqPreset(res.name, res.bands))
                       IN  IF res.name # TUI
                           THEN save_preset(named, EqPreset(TUI, res.bands))
                           ELSE named
                /\ profile' = [active_preset |-> Some(res.name), synced |-> TRUE]
           ELSE /\ profile' = [active_preset |-> Some(res.name),
                               synced |-> previous_profile.synced]
                /\ UNCHANGED preset_files
    /\ UNCHANGED <<attached, model, ds, run_counter, was_connected, idx, responded,
                   log, result, kind, hw, tmode, faults, request, editor, sent,
                   previous_profile, popup>>

\* The keys the environment presses in each mode: those the handler of the
\* mode has an arm for, and in the startup dialog one it has none for
ConflictKeys == {"Left", "Right", "Tab", "BackTab", "Enter", "Esc"}
NormalKeys == {"Left", "Right", "Up", "Down", "PageUp", "PageDown", "Enter", "Esc",
               "0", "r", ")", "p", "s", "d", "q"}
ListKeys == {"Up", "Down", "Enter", "Esc"}
SaveKeys == {"m", "Backspace", "Enter", "Esc"}
ConfirmKeys == {"Left", "Right", "Tab", "BackTab", "Enter", "Esc"}

EditorNext ==
    \/ EditorStart
    \/ CtrlC
    \/ \E key \in ConflictKeys : HandleStartupConflictKey(key)
    \/ \E key \in NormalKeys : HandleNormalKey(key)
    \/ \E key \in ListKeys : HandlePresetSelectKey(key)
    \/ \E key \in SaveKeys : HandlePresetSaveKey(key)
    \/ \E key \in ListKeys : HandlePresetDeleteKey(key)
    \/ \E key \in ConfirmKeys : HandleConfirmQuitKey(key)
    \/ CliEditorReturned

EditorSpec == EditorInit /\ [][EditorNext]_vars

(***************************************************************************)
(* Reading the transport log.                                              *)
(***************************************************************************)
IsWrite(e) == e.op \in {"write", "write_err"}
IsRead(e) == e.op = "read"
IsDataRead(e) == e.op = "read" /\ e.out.tag \notin {"timeout", "error"}

Writes(l) == SelectSeq(l, IsWrite)
Reads(l) == SelectSeq(l, IsRead)
\* writes and timed reads, without the input reports Cloud II primes writes with
WireOps(l) == SelectSeq(l, LAMBDA e : IsWrite(e) \/ IsRead(e))

WriteFailed(l) == \E i \in 1..Len(l) : l[i].op = "write_err"
ReadFailed(l) == \E i \in 1..Len(l) : IsRead(l[i]) /\ l[i].out.tag = "error"
GotData(l) == \E i \in 1..Len(l) : IsDataRead(l[i])
AllReplies(l) == \A i \in 1..Len(l) : IsRead(l[i]) => l[i].out.tag = "reply"
AllTimeouts(l) == \A i \in 1..Len(l) : IsRead(l[i]) => l[i].out.tag = "timeout"

\* the refresh named k has returned to the main loop
HasReturned(k) == kind = k /\ result \in {"Ok", "NoResponse", "HidError"}


(***************************************************************************)
(* Properties of the refresh engine.                                       *)
(***************************************************************************)
\* C1 (as stated): an active refresh that returned without a write error
\* returned NoResponse exactly if no read of the sweep returned data; data
\* that decodes to nothing still makes the sweep Ok.
C1_NoResponseIffNoData ==
    (HasReturned("active") /\ ~WriteFailed(log))
        => (result = "NoResponse" <=> ~GotData(log))

\* C2 (as stated): an active sweep that returned before its last packet was
\* written did so only with connected = Some(false).
C2_SkipOnlyIfDisconnected ==
    (HasReturned("active") /\ ~WriteFailed(log) /\ idx < Len(Packets(model)))
        => ds.connected = Some(FALSE)

\* C2 (amended): the sweep goes on to its next packet exactly while connected
\* is Some(true) after the merge step; with Some(false) or None the remaining
\* packets are skipped.
C2_SkipUnlessConnected ==
    /\ (pc = "active" /\ idx > 1) => ds.connected = Some(TRUE)
    /\ (HasReturned("active") /\ ~WriteFailed(log) /\ idx < Len(Packets(model)))
           => ds.connected # Some(TRUE)
    /\ (HasReturned("active") /\ ~WriteFailed(log) /\ ds.connected = Some(TRUE))
           => Len(Writes(log)) = Len(Packets(model))

\* a sweep that stopped after a packet with connected still None
C2_Witness ==
    /\ HasReturned("active")
    /\ ~WriteFailed(log)
    /\ idx < Len(Packets(model))
    /\ ds.connected = None

\* The order of the two sources of C3, written out feature by feature
C3_Features(m) ==
    << get_wireless_connected_status_packet(m), get_charging_packet(m),
       get_battery_packet(m), get_automatic_shut_down_packet(m),
       get_mute_packet(m), get_surround_sound_packet(m),
       get_mic_connected_packet(m), get_pairing_info_packet(m),
       get_product_color_packet(m), get_side_tone_packet(m),
       get_side_tone_volume_packet(m), get_voice_prompt_packet(m),
       get_sirk_packet(m), get_silent_mode_packet(m) >>

C3_Supported(m) ==
    LET some == SelectSeq(C3_Features(m), IsSome)
    IN  [i \in 1..Len(some) |-> some[i][1]]

\* C3: during an active sweep the packets written are, in order, the supported
\* get packets of the fixed feature order, and writes and timed reads
\* alternate, every write followed by its read before the next write.
C3_FixedOrderNoPipelining ==
    kind = "active" =>
        LET ops == WireOps(log)
            ws  == Writes(log)
        IN  /\ Len(ws) <= Len(C3_Supported(model))
            /\ \A i \in 1..Len(ws) : ws[i].pkt = C3_Supported(model)[i]
            /\ \A i \in 1..Len(ops) : IsWrite(ops[i]) <=> (i % 2 = 1)
            /\ \A i \in 1..Len(ops) : ops[i].op = "write_err" => i = Len(ops)

\* a whole sweep of the codec with the most get packets
C3_Witness ==
    /\ HasReturned("active")
    /\ model = "CloudIII"
    /\ Len(Writes(log)) = Len(Packets(model))
    /\ Len(Reads(log)) = Len(Packets(model))
    /\ Len(Packets(model)) = 10

\* C4 (as stated): after a write error in an active sweep every feature value
\* is None and the capability flags are those set at connection.
C4_ErrorClearsState ==
    (HasReturned("active") /\ result = "HidError")
        => /\ \A f \in FeatureFields : ds[f] = None
           /\ \A f \in CapabilityFlags : ds[f] = can_set(model, f)

\* C5 (as stated): a passive refresh returns Ok whatever the transport did.
C5_PassiveAlwaysOk ==
    HasReturned("passive") => (result = "Ok" /\ pc = "tick")

\* C5 (amended): a passive refresh returns Ok and the loop keeps polling for
\* every outcome of its reads (no data, undecodable data, a failed read); only
\* a failed write of the battery query returns the transport error, and then
\* the loop leaves polling.
C5_PassiveFailsOnlyOnWrite ==
    HasReturned("passive") =>
        /\ result = "Ok" <=> ~WriteFailed(log)
        /\ result = "Ok" => pc = "tick"
        /\ result # "Ok" => (result = "HidError" /\ pc = "connect")

\* a passive refresh whose listen read failed, and that returned Ok
C5_Witness ==
    /\ HasReturned("passive")
    /\ result = "Ok"
    /\ Len(Reads(log)) = 2
    /\ log[1].out.tag = "error"

\* the reads of the log that carried a pushed mute report
MutePushes(l) == SelectSeq(l, LAMBDA e : IsRead(e) /\ e.out.tag = "mute_push")

\* C6: a mute report pushed during a passive refresh sets muted to the pushed
\* value, and the only packet a passive refresh writes is the battery query
\* (never the mute query).
C6_PassiveMutePushBatteryOnly ==
    kind = "passive" =>
        /\ \A i \in 1..Len(log) :
               IsWrite(log[i]) => /\ Some(log[i].pkt) = get_battery_packet(model)
                                  /\ Some(log[i].pkt) # get_mute_packet(model)
        /\ Len(Writes(log)) <= 1
        /\ MutePushes(log) # <<>> =>
               ds.muted = Some(MutePushes(log)[Len(MutePushes(log))].out.val)

\* a listening codec heard a pushed mute report, then asked for the battery
C6_Witness ==
    /\ HasReturned("passive")
    /\ result = "Ok"
    /\ allow_passive_refresh(model)
    /\ Len(log) = 3
    /\ log[1].op = "read" /\ log[1].out.tag = "mute_push" /\ log[1].out.val
    /\ log[2].op = "write"
    /\ log[3].out.tag = "reply"
    /\ ds.muted = Some(TRUE)

\* a first sweep of a connection in which every packet was written and every
\* read gave the matching response
AnsweredSweep ==
    /\ HasReturned("active")
    /\ result = "Ok"
    /\ run_counter = 1
    /\ AllReplies(log)
    /\ Len(Reads(log)) = Len(Packets(model))

\* what the codec decodes from the responses to the queries of its sweep
SweepReplies(m) ==
    { get_event_from_device_response(m, Reply(m, Packets(m)[i], hw)) :
          i \in 1..Len(Packets(m)) }

DecodedEvents(m) ==
    UNION { { d[1][j] : j \in 1..Len(d[1]) } : d \in { x \in SweepReplies(m) : IsSome(x) } }

\* the values decoded for feature field f
DecodedFor(m, f) ==
    { e.val : e \in { x \in DecodedEvents(m) :
                          x.tag # "RequireSIRKReset" /\ FieldOf(x.tag) = f } }

C8_SilentSweepEnds ==
    (kind = "active" /\ AllTimeouts(log) /\ ~WriteFailed(log)) =>
        /\ Len(Packets(model)) <= 14
        /\ Len(Reads(log)) <= Len(Packets(model))
        /\ pc = "active" =>
               /\ Len(Reads(log)) = idx - 1
               /\ idx <= Len(Packets(model))
               /\ ENABLED (\E w \in BOOLEAN : ActiveStep(w))
        /\ pc # "active" =>
               /\ result = "NoResponse"
               /\ Len(Reads(log)) = Len(Writes(log))
               /\ Len(Reads(log)) >= 1

\* a codec that starts connected swept all its packets without an answer
C8_Witness ==
    /\ HasReturned("active")
    /\ tmode = "silent"
    /\ result = "NoResponse"
    /\ Len(Packets(model)) > 1
    /\ Len(Reads(log)) = Len(Packets(model))
    /\ AllTimeouts(log)

C10_IoFailureIsFatal ==
    (HasReturned("active") /\ (WriteFailed(log) \/ ReadFailed(log)))
        => (result = "HidError" /\ pc = "connect")

(***************************************************************************)
(* Properties of the capability flags.                                     *)
(***************************************************************************)
\* the flags the prober gives a connection of codec m
ProbedFlags(m) ==
    [f \in CapabilityFlags |->
        init_capabilities(m, new_from_state(m, DeviceState_new))[f]]

\* C11: for the life of a connection the eight capability flags are the ones
\* the prober set, whatever was refreshed and merged since; clear_state
\* leaves them as they are and probing again gives the same flags.
C11_FlagsFixed ==
    model # "none" =>
        /\ \A f \in CapabilityFlags : ds[f] = ProbedFlags(model)[f]
        /\ \A f \in CapabilityFlags : clear_state(ds)[f] = ds[f]
        /\ \A f \in FeatureFields : clear_state(ds)[f] = None
        /\ init_capabilities(model, ds) = ds
        /\ init_capabilities(model, clear_state(ds)) = clear_state(ds)

\* a connection that has merged values and still has its flags
C11_Witness ==
    /\ HasReturned("passive")
    /\ result = "Ok"
    /\ IsSome(ds.battery_level)
    /\ ds.can_set_mute
    /\ ~ds.can_set_surround_sound

\* C12 (as stated): after init_capabilities each flag is true exactly if the
\* codec's set-encoder of that feature returns a packet for the placeholder
\* argument (for the equalizer of Cloud III S: set_equalizer_bands_packets
\* with one band at 0 dB), and probing wrote nothing and set no feature value.
C12_FlagIffEncoder ==
    (kind = "connect" /\ result = "Ok") =>
        /\ ds.can_set_mute <=> IsSome(set_mute_packet(model, FALSE))
        /\ ds.can_set_surround_sound <=> IsSome(set_surround_sound_packet(model, FALSE))
        /\ ds.can_set_side_tone <=> IsSome(set_side_tone_packet(model, FALSE))
        /\ ds.can_set_automatic_shutdown
               <=> IsSome(set_automatic_shut_down_packet(model, 0))
        /\ ds.can_set_side_tone_volume <=> IsSome(set_side_tone_volume_packet(model, 0))
        /\ ds.can_set_voice_prompt <=> IsSome(set_voice_prompt_packet(model, FALSE))
        /\ ds.can_set_silent_mode <=> IsSome(set_silent_mode_packet(model, FALSE))
        /\ model = "CloudIIIS" =>
               (ds.can_set_equalizer
                    <=> IsSome(IIIS_set_equalizer_bands_packets(<< <<0, 0>> >>)))
        /\ log = <<>>
        /\ \A f \in FeatureFields :
               ds[f] = new_from_state(model, DeviceState_new)[f]


\* The models whose VENDOR_IDS x PRODUCT_IDS holds the pair of dev
ClaimedBy(dev) == { m \in Models : Claims(m, dev) }

\* The position of the first enumerated device some model claims, 0 if none
FirstClaimed(bus) ==
    IF \E i \in 1..Len(bus) : ClaimedBy(bus[i]) # {}
    THEN CHOOSE i \in 1..Len(bus) :
            /\ ClaimedBy(bus[i]) # {}
            /\ \A j \in 1..(i - 1) : ClaimedBy(bus[j]) = {}
    ELSE 0

\* C13: a connect attempt that returns Ok returns the codec of the first
\* enumerated device whose exact (vendor_id, product_id) pair some model
\* claims, with a fresh Device State; it returns NoDeviceFound only when no
\* enumerated device carries a pair claimed by any model.
C13_SelectsFirstClaimedPair ==
    kind = "connect" =>
        /\ result = "Ok" =>
              /\ FirstClaimed(attached) # 0
              /\ model \in ClaimedBy(attached[FirstClaimed(attached)])
              /\ \A f \in FeatureFields \ {"connected"} : ds[f] = None
        /\ result = "NoDeviceFound" => FirstClaimed(attached) = 0

\* C19: no exact (vendor_id, product_id) pair is claimed by two models, so
\* the codec the resolver returns for the device it picked is the model that
\* claims its pair, whatever the order of the match arms.
C19_OneClaimantPerPair ==
    /\ \A i \in 1..Len(attached) : Cardinality(ClaimedBy(attached[i])) <= 1
    /\ (kind = "connect" /\ result = "Ok") =>
            ClaimedBy(attached[FirstListed(attached)]) = {model}

\* A product ID two models list (0x1718) resolved to the one model that
\* claims it together with the vendor ID
C19_Witness ==
    /\ kind = "connect"
    /\ result = "Ok"
    /\ model = "CloudIIDTS"
    /\ attached[FirstListed(attached)] = <<HP, 5912>>
    /\ 5912 \in PRODUCT_IDS_of("CloudII")
    /\ \E i \in 1..Len(attached) : attached[i] = <<HYPERX, 5912>>


\* the last transport operation of l is a read the codec decodes into a
\* connection-status event
ConnectionEventRead(m, l) ==
    /\ l # <<>>
    /\ IsDataRead(l[Len(l)])
    /\ LET updates == wait_for_updates(m, l[Len(l)].out)
       IN  /\ IsSome(updates)
           /\ \E j \in 1..Len(updates[1]) : updates[1][j].tag = "WirelessConnected"

\* C14: the Device State of a freshly resolved device has connected = None,
\* and connected takes a value Some(..) only in a step that merges a decoded
\* connection-status event.
C14_ConnectedNoneUntilEvent ==
    /\ []((kind = "connect" /\ result = "Ok") => ds.connected = None)
    /\ [][(ds'.connected # ds.connected /\ ds'.connected # None)
              => ConnectionEventRead(model, log')]_vars


\* a refresh has returned an error and main is about to connect again; ds
\* still holds what the connection that ended had observed
RefreshFailed ==
    /\ pc = "connect"
    /\ kind \in {"active", "passive"}
    /\ result \in {"NoResponse", "HidError"}

\* C17: the connect attempt that follows a refresh error and succeeds starts
\* the new connection with every feature value unknown, whatever the
\* connection that ended had observed.
C17_ReconnectStartsUnknown ==
    [][(RefreshFailed /\ pc' = "tick") => \A f \in FeatureFields : ds'[f] = None]_vars


\* The events a codec can decode, every variant with the values of the
\* model, by the type of the value
ByteEvents ==
    { Event(tag, val) : tag \in {"BatterLevel", "PairingInfo", "SideToneVolume",
                                 "AutomaticShutdownAfter"},
                        val \in PayloadBytes }
BoolEvents ==
    { Event(tag, val) : tag \in {"Muted", "MicConnected", "SideToneOn",
                                 "SurroundSound", "VoicePrompt",
                                 "WirelessConnected", "Silent", "RequireSIRKReset"},
                        val \in BOOLEAN }
ChargingEvents == { Event("Charging", ChargingStatusFrom(b)) : b \in PayloadBytes }
ColorEvents == { Event("ProductColor", ColorFrom(b)) : b \in PayloadBytes }

\* merging event e into state overwrites the field of e and nothing else
WritesOneField(state, e) ==
    LET after == update_self_with_event(state, e)
    IN  /\ DOMAIN after = DOMAIN state
        /\ e.tag = "RequireSIRKReset" => after = state
        /\ e.tag # "RequireSIRKReset" =>
              /\ FieldOf(e.tag) \in FeatureFields
              /\ after[FieldOf(e.tag)] = Some(e.val)
              /\ \A f \in DOMAIN state \ {FieldOf(e.tag)} : after[f] = state[f]

\* what the last transport operation of log l gave to the merge step
LastUpdates(m, l) ==
    IF l # <<>> /\ IsRead(l[Len(l)]) THEN wait_for_updates(m, l[Len(l)].out) ELSE None

\* C18: merging one event into any Device State the program reaches
\* overwrites the field of the event's variant with Some(value) and leaves
\* every other field unchanged, RequireSIRKReset changes nothing; and a step
\* of a refresh changes Device State only by merging the events of the read it
\* made.
C18_MergeWritesOneField ==
    /\ [](/\ \A e \in ByteEvents : WritesOneField(ds, e)
          /\ \A e \in BoolEvents : WritesOneField(ds, e)
          /\ \A e \in ChargingEvents : WritesOneField(ds, e)
          /\ \A e \in ColorEvents : WritesOneField(ds, e))
    /\ [][(pc \in {"active", "passive_listen", "passive_battery"} /\ ds' # ds)
              => /\ IsSome(LastUpdates(model, log'))
                 /\ ds' = MergeEvents(ds, LastUpdates(model, log')[1])]_vars

\* An event was merged over a value observed before: a mute push during the
\* passive refresh of a headset whose sweep had reported the other mute state
C18_Witness ==
    /\ kind = "passive"
    /\ log # <<>>
    /\ log[Len(log)].out.tag = "mute_push"
    /\ ds.muted = Some(log[Len(log)].out.val)
    /\ IsSome(ds.battery_level)
    /\ ds.vendor_id # 0


\* C16: when the CLI rejects a set operation as not supported, it has written
\* no packet to the transport during that invocation.
C16_RejectedBeforeAnyWrite ==
    (pc = "cli_exit" /\ result = "NotSupported") => Writes(log) = <<>>


\* the packets of the writes of l, failed ones included, in order
SentPackets(l) == [i \in 1..Len(Writes(l)) |-> Writes(l)[i].pkt]

IsPrefix(a, b) == Len(a) <= Len(b) /\ \A i \in 1..Len(a) : a[i] = b[i]

\* the (band, gain) pairs the caller that has run handed to the setter
EqAsked ==
    CASE pc \in {"cli_refresh", "cli_exit", "encoded"} -> request.eq[1]
      [] pc = "applied" -> Enumerate(request.preset[1])
      [] pc = "editor_sent" ->
            IF kind = "eq_band"
            THEN << <<idx, request.preset[1][idx + 1]>> >>
            ELSE Enumerate(request.preset[1])

\* a caller of the setter has run with a list of pairs
EqCallerRan ==
    \/ pc \in {"cli_refresh", "cli_exit", "encoded"} /\ kind = "eq" /\ IsSome(request.eq)
    \/ pc = "applied" /\ IsSome(request.preset) /\ ds.connected = Some(TRUE)
    \/ pc = "editor_sent"

\* C20: for Cloud III S the setter returns None exactly for an empty list
\* or a band index above 9, else one packet per pair in the order of the
\* list (its band index in byte 6); and what a
\* caller wrote is those packets in that order: all of them, or, for a
\* caller that stops at a failed write, the ones up to it.
C20_OnePacketPerBandInOrder ==
    (model = "CloudIIIS" /\ EqCallerRan) =>
        LET bands   == EqAsked
            packets == IIIS_set_equalizer_bands_packets(bands)
        IN  /\ ~IsSome(packets) <=>
                  (bands = <<>> \/ \E i \in 1..Len(bands) : bands[i][1] > 9)
            /\ pc = "encoded" => result = packets
            /\ ~IsSome(packets) => SentPackets(log) = <<>>
            /\ IsSome(packets) =>
                  /\ Len(packets[1]) = Len(bands)
                  /\ \A i \in 1..Len(bands) :
                        /\ Len(packets[1][i]) = 9
                        /\ At(packets[1][i], 6) = bands[i][1]
                  /\ pc # "encoded" => IsPrefix(SentPackets(log), packets[1])
                  /\ (pc # "encoded" /\ ~WriteFailed(log)) => SentPackets(log) = packets[1]
                  /\ pc = "editor_sent" => SentPackets(log) = packets[1]
                  /\ WriteFailed(log) =>
                        \/ pc = "editor_sent"
                        \/ Writes(log)[Len(Writes(log))].op = "write_err"

\* apply_and_sync wrote the two packets of a two-band preset to a Cloud III S,
\* in the order of the bands, and differing gains make the order visible
C20_Witness ==
    /\ model = "CloudIIIS"
    /\ pc = "applied"
    /\ result = "Synced"
    /\ Len(SentPackets(log)) = 2
    /\ At(SentPackets(log)[1], 6) = 0
    /\ At(SentPackets(log)[2], 6) = 1
    /\ SentPackets(log)[1] # SentPackets(log)[2]
    /\ At(SentPackets(log)[1], 7) # At(SentPackets(log)[2], 7)

\* i16::from_be_bytes, the decoding of bytes 7 and 8 of an equalizer packet
I16FromBe(hi, lo) ==
    LET u == hi * 256 + lo
    IN  IF u >= 32768 THEN u - 65536 ELSE u

\* C21 (as stated): every packet the Cloud III S setter returns carries the
\* band index of its pair in byte 6 and, in bytes 7 and 8 as a signed 16-bit
\* big-endian number, exactly the gain of the pair in hundredths of a dB,
\* clamped to -1200..1200.
C21_EqRoundTrip ==
    (pc = "encoded" /\ model = "CloudIIIS" /\ IsSome(result)) =>
        \A i \in 1..Len(request.eq[1]) :
            /\ At(result[1][i], 6) = request.eq[1][i][1]
            /\ I16FromBe(At(result[1][i], 7), At(result[1][i], 8))
                  = ClampCentiDb(request.eq[1][i][2])

\* the report that is, or has been, decoded, its first byte and its identifier
DecodedReport == log[1].out.data
ReportFirst == At(DecodedReport, 0)
ReportId == At(DecodedReport, IdAt(model, ReportFirst))

\* the report with another identifier in place of its own
Retagged(id) == [DecodedReport EXCEPT ![IdAt(model, ReportFirst) + 1] = id]

\* the byte that encodes v of -128..127 in two's complement
TwosComplement8(v) == IF v < 0 THEN 256 + v ELSE v

\* C22: the Cloud II Core decoder turns a side-tone volume report with payload
\* byte b into SideToneVolume(b) for b of 0..5, into the two's-complement byte
\* of b - 256 for b of 251..255, and into SideToneVolume(0) for 6..250.
C22_CoreSideToneVolume ==
    (pc = "decoded" /\ model = "CloudIICore"
        /\ ReportId \in {CORE_GET_SIDE_TONE_VOLUME_CMD_ID, CORE_SET_SIDE_TONE_VOLUME_CMD_ID}) =>
        LET b == At(DecodedReport, 2)
            volume == IF b <= 5 THEN b
                      ELSE IF b >= 251 THEN TwosComplement8(b - 256)
                      ELSE 0
        IN  /\ result = Some(<<Event("SideToneVolume", volume)>>)
            /\ ds.side_tone_volume = Some(volume)

\* a report with the offset byte 251 (-5) has been decoded to SideToneVolume(251)
C22_Witness ==
    /\ pc = "decoded"
    /\ model = "CloudIICore"
    /\ ReportId = CORE_GET_SIDE_TONE_VOLUME_CMD_ID
    /\ At(DecodedReport, 2) = 251
    /\ result = Some(<<Event("SideToneVolume", 251)>>)

\* C23: for Cloud III, Cloud II Core and Cloud Alpha, a report tagged with the
\* get-command ID of a feature and the report that differs from it only in
\* carrying the asynchronous-response ID decode to the same event list, and
\* merging either gives the same Device State.
C23_BothIdsDecodeAlike ==
    [][(pc = "decode" /\ model \in {"CloudIII", "CloudIICore", "CloudAlpha"}) =>
          \A pair \in IdPairs(model) :
              ReportId \in {pair[1], pair[2]} =>
                  LET other == IF ReportId = pair[1] THEN pair[2] ELSE pair[1]
                      twin  == get_event_from_device_response(model, Retagged(other))
                  IN  /\ result' = twin
                      /\ ds' = MergeUpdates(ds, twin)]_vars

\* a Cloud Alpha report with the asynchronous-response ID of the connection
\* status has been decoded and merged: the headset is connected
C23_Witness ==
    /\ pc = "decoded"
    /\ model = "CloudAlpha"
    /\ ReportId = ALPHA_GET_WIRELESS_STATUS_RESPONSE_CODE
    /\ result = Some(<<Event("WirelessConnected", TRUE)>>)
    /\ ds.connected = Some(TRUE)

\* C24 (as stated): for every codec, a report it emits for the battery
\* feature with a level byte L of 0..100 decodes to exactly <<BatterLevel(L)>>,
\* whatever its other payload bytes are, and merging it changes battery_level
\* and nothing else.
C24_BatteryReportDecodes ==
    [][(pc = "decode" /\ <<ReportFirst, ReportId>> \in BatteryTags(model)) =>
          LET level == At(DecodedReport, BatteryLevelAt(model, ReportFirst))
          IN  level <= 100 =>
                  /\ result' = Some(<<Event("BatterLevel", level)>>)
                  /\ ds' = [ds EXCEPT !.battery_level = Some(level)]]_vars

(***************************************************************************)
(* Recovery from "not connected".                                          *)
(***************************************************************************)
\* The headset behind the dongle is on: the codec's connection-status query,
\* if it has one, is answered with "connected"
HeadsetReportedConnected(m, b) ==
    LET query == get_wireless_connected_status_packet(m)
    IN  IsSome(query) =>
            get_event_from_device_response(m, Reply(m, query[1], b))
                = Some(<<Event("WirelessConnected", TRUE)>>)

FirstResponseDisconnects(m, l) ==
    /\ Reads(l) # <<>>
    /\ LET updates == wait_for_updates(m, Reads(l)[1].out)
       IN  /\ IsSome(updates)
           /\ \E j \in 1..Len(updates[1]) :
                  updates[1][j] = Event("WirelessConnected", FALSE)

\* C26: an active sweep in which the response to the first written packet
\* reports the headset as disconnected has written that one packet only, left
\* connected = Some(false) and returned Ok, and the run loop goes on polling.
C26_DisconnectedSweepIsOk ==
    (HasReturned("active") /\ FirstResponseDisconnects(model, log)) =>
        /\ Len(Writes(log)) = 1
        /\ Len(Reads(log)) = 1
        /\ ds.connected = Some(FALSE)
        /\ result = "Ok"
        /\ pc = "tick"

\* Cloud III answered its connection-status query with "disconnected"
C26_Witness ==
    /\ HasReturned("active")
    /\ model = "CloudIII"
    /\ FirstResponseDisconnects(model, log)
    /\ Reads(log)[1].out.tag = "reply"
    /\ Len(Packets(model)) > 1
    /\ result = "Ok"

(***************************************************************************)
(* The cadence of the run loop.                                            *)
(***************************************************************************)
\* the positions of the main loop inside a refresh
InRefresh(p) == p \in {"active", "passive_listen", "passive_battery"}

\* C28: the first refresh after every (re)connection is active; a tick is
\* active exactly when run_counter is a multiple of 30 and passive otherwise,
\* with 29 passive refreshes between two consecutive active ones; run_counter
\* goes up by one with every refresh that returned Ok and restarts at 0 on
\* every (re)connection.
C28_ActiveEveryThirtieth ==
    [][ /\ (pc = "connect" /\ pc' = "tick") => run_counter' = 0
        /\ (pc = "tick" /\ kind = "connect" /\ pc' # "tick") =>
               (kind' = "active" /\ pc' = "active")
        /\ (pc = "tick" /\ pc' # "tick") =>
               /\ kind' \in {"active", "passive"}
               /\ kind' = "active" <=> run_counter % 30 = 0
               /\ pc' = "active" <=> kind' = "active"
               /\ run_counter' = run_counter
               /\ (kind' = "active" /\ run_counter > 0) =>
                      Cardinality({ c \in (LastActiveBefore(run_counter) + 1)
                                             ..(run_counter - 1) :
                                        RefreshKind(c) = "passive" }) = 29
        /\ (InRefresh(pc) /\ pc' = "tick") => run_counter' = run_counter + 1
        /\ (InRefresh(pc) /\ pc' # "tick") => run_counter' = run_counter ]_vars

\* the second active refresh of a connection has started
C28_Witness ==
    /\ pc = "active"
    /\ kind = "active"
    /\ run_counter = 30
    /\ log = <<>>

\* C29 (as stated): with the default refresh interval of 3 seconds, the
\* sleeps of the run loop between two consecutive active refreshes of one
\* connection add up to 180 seconds.
C29_ActiveEveryThreeMinutes ==
    (pc = "active" /\ run_counter > 0) =>
        SleptBefore(run_counter) - SleptBefore(LastActiveBefore(run_counter)) = 180

(***************************************************************************)
(* apply_and_sync.  Both saves of the function store Some(name), the name  *)
(* it was called with; result holds the synced flag of the saved profile.  *)
(***************************************************************************)
\* the packets of the preset apply_and_sync was called with, if the preset
\* exists and the codec encodes it
PresetPackets ==
    IF IsSome(request.preset)
    THEN set_equalizer_bands_packets(model, Enumerate(request.preset[1]))
    ELSE None

PopupShown(p) == IsSome(p.window) /\ p.window[1].shown

\* C38: the visible flag is true exactly when the current window is shown;
\* from any state the popup can be in, Show shows a hidden popup and hides a
\* visible one, Hide leaves it hidden, and UpdateState leaves the visibility
\* as it is.
C38_PopupVisibility ==
    /\ popup.visible <=> PopupShown(popup)
    /\ \A c \in PopupCommands :
          LET after == popup_command(popup, c)
          IN  /\ after.visible <=> PopupShown(after)
              /\ c.cmd = "Show" => (after.visible <=> ~popup.visible)
              /\ c.cmd = "Hide" => ~after.visible
              /\ c.cmd = "UpdateState" => (after.visible <=> popup.visible)

\* a window that a Show put on the screen and a focus loss or a Hide took off
\* it, with an UpdateState waiting
C38_Witness ==
    /\ pc = "popup"
    /\ IsSome(popup.window)
    /\ ~popup.window[1].shown
    /\ ~popup.visible
    /\ popup.rx # <<>>
    /\ popup.rx[1].cmd = "UpdateState"
(***************************************************************************)
(* The preset sync of the tray main loop.                                  *)
(***************************************************************************)
\* a codec whose multi-band equalizer encoder yields packets
EqCapable(m) == m \in Models /\ IsSome(set_equalizer_bands_packets(m, << <<0, 0>> >>))

\* a refresh returns Ok to main in this step
RefreshReturnsOk == result = "pending" /\ result' = "Ok"

\* C31: on an equalizer-capable device, in the pass of the run loop in which
\* the headset goes from not connected to connected while the selected
\* profile is unsynced and names a preset, main applies that preset
\* (apply_and_sync is called in that pass)
C31_TransitionSyncs ==
    [][(/\ RefreshReturnsOk
        /\ EqCapable(model)
        /\ ds'.connected = Some(TRUE)
        /\ ~was_connected
        /\ NeedsSync(profile))
       => pc' = "apply_and_sync"]_vars

\* C32: an unsynced profile naming a preset never stays unsynced for ever on
\* an equalizer-capable headset that stays connected
C32_NeverUnsyncedForever ==
    ~<>[](/\ EqCapable(model)
          /\ ds.connected = Some(TRUE)
          /\ NeedsSync(profile))

(***************************************************************************)
(* The EQ editor.                                                          *)
(***************************************************************************)
\* event_loop has returned a result of this kind
EditorReturned(k) ==
    /\ pc \in {"editor_returned", "exit"}
    /\ editor.result[1].kind = k

\* the device was last handed exactly these gains, band by band
LastSent(bands) == \A i \in 1..NUM_BANDS : sent[i] = Some(bands[i])

\* C34: whenever the editor returns Saved {name, bands}, in whatever mode, for
\* every band the last gain the editor sent to the device is the returned one
C34_SavedBandsAreOnHeadset ==
    EditorReturned("Saved") => LastSent(editor.result[1].bands)

\* C35: when the editor ended with Cancelled and the CLI has written the
\* profile, the profile has the active preset and the synced value it had
\* before the editor started, and the last bands sent are original_bands
C35_CancelRestoresProfile ==
    (pc = "exit" /\ EditorReturned("Cancelled"))
        => /\ profile.active_preset = previous_profile.active_preset
           /\ profile.synced = previous_profile.synced
           /\ LastSent(editor.original_bands)

\* C36: in every state of the editor modified = false implies bands =
\* original_bands; so Cancelled comes from Normal mode only with the bands
\* of the start, and an exit that discards changed bands is the Undo of the
\* ConfirmQuit dialog
C36_UnmodifiedMeansOriginal ==
    (pc \in {"event_loop", "editor_returned", "exit"})
        => /\ ~editor.modified => editor.bands = editor.original_bands
           /\ EditorReturned("Cancelled")
                 => \/ /\ editor.mode = "Normal"
                       /\ editor.bands = editor.original_bands
                    \/ /\ editor.mode = "ConfirmQuit"
                       /\ editor.confirm_quit_selection = "Undo"

\* changed bands were discarded through Undo
C36_Witness ==
    /\ EditorReturned("Cancelled")
    /\ editor.mode = "ConfirmQuit"
    /\ editor.bands # editor.original_bands

\* the gain of the band under the cursor after a key in Normal mode
AfterKey(key) == handle_normal_key(editor, key, preset_files).ed.bands[editor.cursor + 1]

\* a key changed the band under the cursor by a step, up to a limit, and no
\* other band
SteppedBy(key, by) ==
    LET before == editor.bands[editor.cursor + 1]
        after  == handle_normal_key(editor, key, preset_files).ed
    IN  /\ AfterKey(key) = IF before + by > DB_MAX THEN DB_MAX
                           ELSE IF before + by < DB_MIN THEN DB_MIN
                           ELSE before + by
        /\ \A i \in 1..NUM_BANDS : i # editor.cursor + 1 => after.bands[i] = editor.bands[i]

\* C37: with presets within [-12, +12] dB, after any keys in any mode the
\* cursor is a band index and every band is within [-12, +12] dB; Left and
\* Right wrap around; Up and Down move the band under the cursor by 1 dB,
\* PageUp and PageDown by 3 dB, stopping at the limits
C37_CursorAndBandsInRange ==
    (pc \in {"event_loop", "editor_returned", "exit"})
        => /\ editor.cursor \in 0..(NUM_BANDS - 1)
           /\ \A i \in 1..NUM_BANDS :
                 editor.bands[i] >= DB_MIN /\ editor.bands[i] <= DB_MAX
           /\ handle_normal_key(editor, "Left", preset_files).ed.cursor =
                 IF editor.cursor = 0 THEN NUM_BANDS - 1 ELSE editor.cursor - 1
           /\ handle_normal_key(editor, "Right", preset_files).ed.cursor =
                 IF editor.cursor = NUM_BANDS - 1 THEN 0 ELSE editor.cursor + 1
           /\ SteppedBy("Up", 100)
           /\ SteppedBy("Down", -100)
           /\ SteppedBy("PageUp", 300)
           /\ SteppedBy("PageDown", -300)

\* Up on a band 0.5 dB under the limit stopped at the limit, on the last band
C37_Witness ==
    /\ pc = "event_loop"
    /\ editor.mode = "Normal"
    /\ editor.original_bands[1] = 1150
    /\ editor.bands[1] = DB_MAX
    /\ editor.cursor = NUM_BANDS - 1

====
